---- MODULE Spec2Model ----
(***************************************************************************)
(* login-app: the in-memory identity store (internal/storage/user.go),     *)
(* a map of user records with two uniqueness indexes behind one            *)
(* sync.RWMutex, called by any number of concurrent callers.               *)
(*                                                                         *)
(* Every method is modelled statement by statement inside its critical    *)
(* section: each map read that decides a branch and each map write is one  *)
(* step, so the states between two writes of one call are states of the    *)
(* model and the lock is what hides them from other callers.               *)
(*                                                                         *)
(* Spec runs callers that make any sequence of calls on a new store;       *)
(* SpecOnce runs callers that each make one call, all of them waiting for  *)
(* the lock at the start, on each of the stores a call sequence can leave. *)
(*                                                                         *)
(* On top of the store stands the auth service (internal/auth/service.go): *)
(* Register, Login, ValidateToken and GetUserProfile, each a sequence of   *)
(* steps around its store calls, with bcrypt and the token library         *)
(* modelled by what they accept and reject.  SpecAuth runs one client that *)
(* makes service calls and direct store writes one after another while the *)
(* clock advances, each store call running under the lock in one step      *)
(* (EffectAgrees relates that step to the statement-level methods);        *)
(* SpecRace runs concurrent Registers through the statement-level store,   *)
(* SpecConc concurrent Registers and Logins; SpecSeq runs one caller that  *)
(* makes store calls one after another and writes into the records it      *)
(* passed in and got back; SpecLive runs callers that each make one call   *)
(* of a service or store method, all at once and fairly scheduled.         *)
(*                                                                         *)
(* In front of the service stand the HTTP routes (internal/auth handlers   *)
(* and internal/server): the auth middleware and the handlers of register, *)
(* login, logout, profile and dashboard, each request a chain of steps     *)
(* around its service call.  SpecHTTP runs one client that sends requests  *)
(* one after another while the clock advances; SpecRaceHTTP runs clients   *)
(* that register at the same moment.                                       *)
(*                                                                         *)
(* SpecBoot is main (main.go) with config.Load: the flags and the          *)
(* environment are read, the configuration is built or refused, and the    *)
(* store and the server are created.                                       *)
(***************************************************************************)
EXTENDS Integers, FiniteSets, Sequences, TLC

\* ------------------------------------------------------------------ bounds

\* Number of concurrent callers (goroutines) of the store.
NumCallers == 2
\* Number of calls made in one run of the store (all callers together).
MaxCalls == 5

\* The last instant of the clock, in ticks.
MaxTime == 3

\* Ticks of the clock in one second (tokens carry whole seconds).
TicksPerSecond == 2

\* Number of calls made on the service, or directly on its store, in one run.
MaxRequests == 4

Callers == 1..NumCallers

\* The values the callers pass. Identifiers, emails and usernames are opaque
\* to the store, which only compares them and uses them as map keys; an
\* identifier (the hex form of a random number) is written as a number.
Emails == {"a@x.com", "b@x.com", "c@x.com"}
Usernames == {"alice", "bob", "carol"}

\* The values used by the runs of arbitrarily many calls (two records are
\* enough to make every collision and every index retargeting happen).
SeqIDs == {1, 2}
SeqUsernames == {"alice", "bob"}

\* An identifier of caller p's own, held by no record of any starting store.
OwnID(p) == Cardinality(SeqIDs) + p

\* ------------------------------------------------------------------- state

VARIABLES
    users,        \* s.users: map id -> stored User record
    emailIdx,     \* s.emailIdx: map email -> id
    usernameIdx,  \* s.usernameIdx: map username -> id
    mu,           \* s.mu: the RWMutex, [writer: BOOLEAN, readers: Nat]
    pc,           \* per caller: where it stands in the method it runs
    req,          \* per caller: the method called and its arguments
    res,          \* per caller: the value the method returns
    cur,          \* per caller: the local *User (existingUser / user)
    userID,       \* per caller: the local userID read from an index
    snap,         \* history: the store when the running writer took the lock
    store0,       \* history: the store the concurrent scenario started from
    calls,        \* history: the number of calls made so far
    now,          \* time.Now(), in clock ticks
    spc,          \* per caller: where it stands in the Service method it runs
    sreq,         \* per caller: the Service method called and its arguments
    sres,         \* per caller: what the Service method returns
    loc,          \* per caller: the locals of the Service method
    issued,       \* history: the tokens the service has signed
    enrolled,     \* history: the records Register stored, with their passwords
    shared,       \* per caller: the entries of users that are the object it holds
    boot,         \* main: its flags, its environment, where it stands, what it made
    http,         \* per caller: the HTTP request it sent, and how far gin has taken it
    nextID        \* history: the identifiers generateID has handed out

storeVars == <<users, emailIdx, usernameIdx>>
svcVars == <<now, spc, sreq, sres, loc, issued, enrolled, shared, boot, http, nextID>>
vars ==
    <<users, emailIdx, usernameIdx, mu, pc, req, res, cur, userID, snap, store0, calls,
      now, spc, sreq, sres, loc, issued, enrolled, shared, boot, http, nextID>>

\* ------------------------------------------------------------- Go's maps

\* m[k] = v
MapPut(m, k, v) == [x \in (DOMAIN m) \cup {k} |-> IF x = k THEN v ELSE m[x]]

\* delete(m, k): a no-op when k is absent
MapDelete(m, k) == [x \in (DOMAIN m) \ {k} |-> m[x]]

\* _, exists := m[k]
Has(m, k) == k \in DOMAIN m

EmptyMap == [x \in {} |-> 0]

\* --------------------------------------------------------------- records

\* A bcrypt hash: the cost it was made with and the password it is a hash of.
\* The zero value stands for the empty string.
PasswordHash(cost, password) == [cost |-> cost, of |-> password]
NoHash == PasswordHash(0, <<>>)

\* The fields of storage.User that the store copies without reading them.
Rest(hash, first, last, created, updated) ==
    [PasswordHash |-> hash, FirstName |-> first, LastName |-> last,
     CreatedAt |-> created, UpdatedAt |-> updated]
NoRest == Rest(NoHash, "", "", 0, 0)

\* storage.User.
UserOf(id, email, username, active, rest) ==
    [ID |-> id, Email |-> email, Username |-> username, IsActive |-> active,
     PasswordHash |-> rest.PasswordHash, FirstName |-> rest.FirstName,
     LastName |-> rest.LastName, CreatedAt |-> rest.CreatedAt,
     UpdatedAt |-> rest.UpdatedAt]

\* storage.User with only the fields the store reads or overwrites set.
User(id, email, username, active) == UserOf(id, email, username, active, NoRest)

\* The fields of record u the store copies without reading them.
RestOf(u) == Rest(u.PasswordHash, u.FirstName, u.LastName, u.CreatedAt, u.UpdatedAt)

\* The nil *User.
NilUser == User(0, "", "", FALSE)

\* The errors of the storage package, and the outcomes of a call.
ErrUserNotFound == "user not found"
ErrUserExists == "user already exists"
NoErr == "nil"
NilDeref == "panic: nil pointer dereference"
Pending == "pending"

\* A call: the method and its argument, a key or a *User.
RequestOf(op, id, email, username, active, rest) ==
    [op |-> op, id |-> id, email |-> email, username |-> username, active |-> active,
     rest |-> rest]

\* A call whose argument has only the fields the method reads set.
Request(op, id, email, username, active) ==
    RequestOf(op, id, email, username, active, NoRest)

NoRequest == Request("none", 0, "", "", FALSE)

\* CreateUser reads ID, Email, Username of its argument (IsActive is overwritten).
CreateRequests(I, E, U) ==
    {Request("CreateUser", i, e, u, FALSE) : i \in I, e \in E, u \in U}

\* UpdateUser reads ID, Email, Username and stores the whole argument.
UpdateRequests(I, E, U) ==
    UNION {{Request("UpdateUser", i, e, u, a) : i \in I, e \in E, u \in U}
           : a \in BOOLEAN}

DeleteRequests(I) == {Request("DeleteUser", i, "", "", FALSE) : i \in I}

GetByIDRequests(I) == {Request("GetUserByID", i, "", "", FALSE) : i \in I}

GetByEmailRequests(E) == {Request("GetUserByEmail", 0, e, "", FALSE) : e \in E}

GetByUsernameRequests(U) ==
    {Request("GetUserByUsername", 0, "", u, FALSE) : u \in U}

ListRequests == {Request("ListUsers", 0, "", "", FALSE)}

WriteOps == {"CreateUser", "UpdateUser", "DeleteUser"}
ReadOps == {"GetUserByID", "GetUserByEmail", "GetUserByUsername", "ListUsers"}

WriteRequests ==
    CreateRequests(SeqIDs, Emails, SeqUsernames)
        \cup UpdateRequests(SeqIDs, Emails, SeqUsernames)
        \cup DeleteRequests(SeqIDs)
ReadRequests ==
    GetByIDRequests(SeqIDs) \cup GetByEmailRequests(Emails)
        \cup GetByUsernameRequests(SeqUsernames) \cup ListRequests

\* A return value: the error and the records returned (copies), as a set.
Result(err, val) == [err |-> err, val |-> val]
NoResult == Result(Pending, {})

\* The three maps as one value.
Store == [users |-> users, emailIdx |-> emailIdx, usernameIdx |-> usernameIdx]
EmptyStore == [users |-> EmptyMap, emailIdx |-> EmptyMap, usernameIdx |-> EmptyMap]

\* The first statement of each method after it took the lock.
Entry(op) ==
    CASE op = "CreateUser" -> "cr_check"
      [] op = "UpdateUser" -> "up_find"
      [] op = "DeleteUser" -> "del_find"
      [] op = "GetUserByID" -> "gid_read"
      [] op = "GetUserByEmail" -> "gem_idx"
      [] op = "GetUserByUsername" -> "gun_idx"
      [] op = "ListUsers" -> "list_read"

\* ------------------------------------------------------------ the RWMutex

\* A write method that takes no exclusive lock (RLock where Lock is meant).
CanLockAnytime == TRUE

\* A write lock that waits for the writer only, not for the readers inside.
CanLockIgnoringReaders == ~mu.writer

\* A read lock that does not wait for the writer inside.
CanRLockAnytime == TRUE

\* s.mu.Lock() can return: no writer and no reader holds the lock.
CanLock == ~mu.writer /\ mu.readers = 0

\* s.mu.RLock() can return: no writer holds the lock.
CanRLock == ~mu.writer

Locked == [writer |-> TRUE, readers |-> mu.readers]
RLocked == [writer |-> mu.writer, readers |-> mu.readers + 1]
Unlocked == [writer |-> FALSE, readers |-> mu.readers]
RUnlocked == [writer |-> mu.writer, readers |-> mu.readers - 1]

\* A caller is inside the critical section of the method it runs.
InCS(p) == pc[p] \notin {"idle", "wait", "done"}
InWriteCS(p) == InCS(p) /\ req[p].op \in WriteOps
InReadCS(p) == InCS(p) /\ req[p].op \in ReadOps

\* ------------------------------------------------------ the auth service

\* The errors of the auth package. ErrUserNotFound and ErrUserExists of this
\* package are values of their own: they compare unequal to the storage
\* package's errors of the same text.
ErrInvalidToken == "auth: invalid token"
ErrTokenExpired == "auth: token expired"
ErrInvalidCredentials == "auth: invalid credentials"
AuthErrUserNotFound == "auth: user not found"
AuthErrUserExists == "auth: user already exists"

\* The configuration the service is built with (config.Load): the secret, the
\* token lifetime (24 hours in the source, one second here) and the bcrypt cost.
JWTSecret == "your-256-bit-secret-key-here-make-sure-its-long-enough"
TokenDuration == 1 * TicksPerSecond
BCryptCost == 10

\* An environment variable: set to a value, or not set. os.Getenv gives the
\* empty string for one that is not set.
Unset(empty) == [set |-> FALSE, value |-> empty]
SetTo(v) == [set |-> TRUE, value |-> v]
Getenv(e, key) == e[key].value

\* getEnv that takes a variable set to the empty string as given.
getEnvIfSet(e, key, defaultValue) == IF e[key].set THEN e[key].value ELSE defaultValue

\* getEnv: the variable, or the default when it is unset or empty.
getEnv(e, key, defaultValue) ==
    IF Getenv(e, key) # "" THEN Getenv(e, key) ELSE defaultValue

\* strconv.Atoi on a string of bytes: the number written in decimal digits,
\* or an error.
RECURSIVE Digits(_)
Digits(b) == IF b = <<>> THEN 0 ELSE 10 * Digits(SubSeq(b, 1, Len(b) - 1)) + (b[Len(b)] - 48)
Atoi(b) ==
    IF b # <<>> /\ \A i \in 1..Len(b) : b[i] \in 48..57
      THEN [err |-> FALSE, n |-> Digits(b)]
      ELSE [err |-> TRUE, n |-> 0]

\* getBcryptCost: BCRYPT_COST when it is a number from 4 to 31, or the default.
getBcryptCost(e) ==
    LET cost == IF e.BCRYPT_COST.set THEN e.BCRYPT_COST.value ELSE <<>>
    IN IF cost # <<>> /\ ~Atoi(cost).err /\ Atoi(cost).n >= 4 /\ Atoi(cost).n <= 31
         THEN Atoi(cost).n
         ELSE BCryptCost

\* config.Config, and config.Load: the configuration for an environment name
\* and the environment variables, or an error.
Config(port, secret, cost, level, format) ==
    [Port |-> port, JWTSecret |-> secret, TokenDuration |-> TokenDuration,
     BCryptCost |-> cost, LogLevel |-> level, LogFormat |-> format]
NoConfig == Config("", "", 0, "", "")
ErrSecretRequired == "JWT_SECRET must be set in production environment"
Load(environment, e) ==
    LET cfg == Config(getEnv(e, "PORT", "8080"), getEnv(e, "JWT_SECRET", JWTSecret),
                      getBcryptCost(e), getEnv(e, "LOG_LEVEL", "info"),
                      getEnv(e, "LOG_FORMAT", "text"))
    IN CASE environment = "production" ->
                IF cfg.JWTSecret = JWTSecret
                  THEN [cfg |-> NoConfig, err |-> ErrSecretRequired]
                  ELSE [cfg |-> [cfg EXCEPT !.BCryptCost = 12, !.LogLevel = "warn"],
                        err |-> NoErr]
         [] environment = "development" ->
                [cfg |-> [cfg EXCEPT !.BCryptCost = 8, !.LogLevel = "debug"], err |-> NoErr]
         [] OTHER -> [cfg |-> cfg, err |-> NoErr]

\* The command line of main and the environment it runs in.
Flags(version, env, port) == [version |-> version, env |-> env, port |-> port]
NoEnvironment ==
    [JWT_SECRET |-> Unset(""), PORT |-> Unset(""), BCRYPT_COST |-> Unset(<<>>),
     LOG_LEVEL |-> Unset(""), LOG_FORMAT |-> Unset("")]

\* main: where it stands, its flags and environment, the configuration it
\* loaded, and whether the store and the server have been created.
Boot(at, flags, e, cfg, store, server) ==
    [pc |-> at, flags |-> flags, env |-> e, cfg |-> cfg, store |-> store,
     server |-> server]

\* main has started the server with nothing set in the environment, for an
\* environment name that Load has no overrides for.
Booted ==
    Boot("serving", Flags(FALSE, "test", "8080"), NoEnvironment,
         Load("test", NoEnvironment).cfg, TRUE, TRUE)

\* bcrypt.GenerateFromPassword: a hash of the password, or an error for a
\* password of more than 72 bytes.
ErrPasswordTooLong == "bcrypt: password length exceeds 72 bytes"
hashPassword(password) ==
    IF Len(password) > 72
      THEN [err |-> ErrPasswordTooLong, hash |-> NoHash]
      ELSE [err |-> NoErr, hash |-> PasswordHash(BCryptCost, password)]

\* bcrypt.CompareHashAndPassword: nil when the hash is a hash of the password.
ErrHashTooShort == "bcrypt: hashedSecret too short to be a bcrypted password"
ErrMismatchedHashAndPassword == "bcrypt: hashedPassword is not the hash of the given password"
verifyPassword(hashedPassword, password) ==
    IF hashedPassword = NoHash THEN ErrHashTooShort
    ELSE IF hashedPassword.of = password THEN NoErr
    ELSE ErrMismatchedHashAndPassword

\* jwt.NewNumericDate: the instant cut to whole seconds.
NumericDate(t) == t - (t % TicksPerSecond)

\* A token string: the signing method named in its header, the key its
\* signature was made with, and its JWTClaims.
Token(alg, key, id, email, username, exp, iat, nbf) ==
    [alg |-> alg, key |-> key, UserID |-> id, Email |-> email, Username |-> username,
     ExpiresAt |-> exp, IssuedAt |-> iat, NotBefore |-> nbf]
NoToken == Token("", "", 0, "", "", 0, 0, 0)

\* generateToken with the expiry instant written into NotBefore as well.
generateTokenNotBeforeExpiry(user) ==
    [token |-> Token("HS256", JWTSecret, user.ID, user.Email, user.Username,
                     NumericDate(now + TokenDuration), NumericDate(now),
                     NumericDate(now + TokenDuration)),
     expiresAt |-> now + TokenDuration]

\* generateToken: the token signed for a user at time.Now(), and the expiry
\* instant handed back with it.
generateToken(user) ==
    [token |-> Token("HS256", JWTSecret, user.ID, user.Email, user.Username,
                     NumericDate(now + TokenDuration), NumericDate(now),
                     NumericDate(now)),
     expiresAt |-> now + TokenDuration]

\* jwt.ParseWithClaims with the service's key function, at instant t: the
\* header must name an HMAC method, the signature must verify under the
\* configured secret, and the parser then validates the registered claims
\* (t before ExpiresAt, t not before NotBefore).
ErrTokenUnverifiable == "jwt: error while executing keyfunc"
ErrTokenSignatureInvalid == "jwt: signature is invalid"
ErrTokenLibExpired == "jwt: token is expired"
ErrTokenNotValidYet == "jwt: token is not valid yet"
ErrTokenMalformed == "jwt: token is malformed"
HMACMethods == {"HS256", "HS384", "HS512"}

\* A string that is no token: it has no header to name a method.
Malformed == Token("", "", 0, "", "", 0, 0, 0)

\* Parsing that reads the claims and validates them without verifying the
\* signature.
ParseUnverified(token, t) ==
    IF token.alg = "" THEN ErrTokenMalformed
    ELSE IF ~(t < token.ExpiresAt) THEN ErrTokenLibExpired
    ELSE IF t < token.NotBefore THEN ErrTokenNotValidYet
    ELSE NoErr

ParseWithClaims(token, t) ==
    IF token.alg = "" THEN ErrTokenMalformed
    ELSE IF token.alg \notin HMACMethods THEN ErrTokenUnverifiable
    ELSE IF token.key # JWTSecret THEN ErrTokenSignatureInvalid
    ELSE IF ~(t < token.ExpiresAt) THEN ErrTokenLibExpired
    ELSE IF t < token.NotBefore THEN ErrTokenNotValidYet
    ELSE NoErr

\* auth.UserInfo and userToUserInfo.
UserInfo(id, email, username, first, last, created) ==
    [ID |-> id, Email |-> email, Username |-> username, FirstName |-> first,
     LastName |-> last, CreatedAt |-> created]
NoUserInfo == UserInfo(0, "", "", "", "", 0)

\* userToUserInfo that copies the password hash too.
userToUserInfoWithHash(user) ==
    [ID |-> user.ID, Email |-> user.Email, Username |-> user.Username,
     FirstName |-> user.FirstName, LastName |-> user.LastName,
     CreatedAt |-> user.CreatedAt, PasswordHash |-> user.PasswordHash]

userToUserInfo(user) ==
    UserInfo(user.ID, user.Email, user.Username, user.FirstName, user.LastName,
             user.CreatedAt)

\* A call of the service: the method and its arguments.
SvcRequest(op, email, username, password, token, id) ==
    [op |-> op, email |-> email, username |-> username, password |-> password,
     first |-> "Ann", last |-> "Lee", token |-> token, id |-> id]
NoSvcRequest == SvcRequest("none", "", "", <<>>, NoToken, 0)

\* What a method of the service returns: the error, and the LoginResponse
\* (token, user, expiry) or the *UserInfo.
SvcResult(err, token, user, expiresAt) ==
    [err |-> err, token |-> token, user |-> user, expiresAt |-> expiresAt]
NoSvcResult == SvcResult(Pending, NoToken, NoUserInfo, 0)

\* The routes of the server that the model serves, and those behind the
\* authentication middleware.
RegisterRoute == "POST /api/auth/register"
LoginRoute == "POST /api/auth/login"
LogoutRoute == "POST /api/auth/logout"
ProfileRoute == "GET /api/auth/profile"
DashboardRoute == "GET /dashboard"
Routes == {RegisterRoute, LoginRoute, LogoutRoute, ProfileRoute, DashboardRoute}
Protected == {ProfileRoute, DashboardRoute}

\* An Authorization header is the sequence of its pieces: a space, a word (a
\* run of characters without a space) or a token string. strings.Split(h, " ")
\* gives the runs of pieces between the spaces, the empty runs included.
Piece(kind, word, token) == [kind |-> kind, word |-> word, token |-> token]
Space == Piece("space", " ", NoToken)
Word(w) == Piece("word", w, NoToken)
TokenString(t) == Piece("token", "", t)
RECURSIVE Split(_)
Split(h) ==
    IF h = <<>> THEN << <<>> >>
    ELSE LET rest == Split(Tail(h))
         IN IF Head(h) = Space THEN << <<>> >> \o rest
            ELSE << <<Head(h)>> \o rest[1] >> \o Tail(rest)

\* The token that a part of the header is: the token of a token string, and
\* for every other string one that does not parse.
AsToken(part) ==
    IF Len(part) = 1 /\ part[1].kind = "token" THEN part[1].token ELSE Malformed

\* One request and gin's context for it: where the chain of handlers stands,
\* the route, the Authorization header, whether the body binds to the
\* handler's request type, the status written, whether the chain was aborted,
\* whether the route's handler has run, the keys set in the context, and
\* (history) the tokens that ValidateToken accepted for this request.
Exchange(at, route, header, binds, status, aborted, ran, keys, accepted) ==
    [at |-> at, route |-> route, header |-> header, binds |-> binds, status |-> status,
     aborted |-> aborted, ran |-> ran, keys |-> keys, accepted |-> accepted]
NoKeys == [user_id |-> 0, user_info |-> {}]
NoExchange == Exchange("idle", "", <<>>, FALSE, 0, FALSE, FALSE, NoKeys, {})

\* No call of the service is running. The clock starts after instant 0, which
\* stands for the zero time.Time of a field that was never set: no time.Now()
\* equals it.
SvcInit ==
    /\ now = 1
    /\ spc = [p \in Callers |-> "idle"]
    /\ sreq = [p \in Callers |-> NoSvcRequest]
    /\ sres = [p \in Callers |-> NoSvcResult]
    /\ loc = [p \in Callers |-> NilUser]
    /\ issued = {}
    /\ enrolled = {}
    /\ shared = [p \in Callers |-> {}]
    /\ boot = Booted
    /\ http = [p \in Callers |-> NoExchange]
    /\ nextID = 0

\* --------------------------------------------------------------- the steps

\* One local step of caller p: to label `to`, returning `r` when the method ends.
Goto(p, to) == pc' = [pc EXCEPT ![p] = to]
Return(p, r) == pc' = [pc EXCEPT ![p] = "ret"] /\ res' = [res EXCEPT ![p] = r]

Init ==
    /\ SvcInit
    /\ users = EmptyMap
    /\ emailIdx = EmptyMap
    /\ usernameIdx = EmptyMap
    /\ mu = [writer |-> FALSE, readers |-> 0]
    /\ pc = [p \in Callers |-> "idle"]
    /\ req = [p \in Callers |-> NoRequest]
    /\ res = [p \in Callers |-> NoResult]
    /\ cur = [p \in Callers |-> NilUser]
    /\ userID = [p \in Callers |-> 0]
    /\ snap = {}
    /\ store0 = EmptyStore
    /\ calls = 0

\* What a step leaves alone.
LocalsOnly == UNCHANGED <<users, emailIdx, usernameIdx, mu, req, snap, store0, calls>>

\* ---------------------------------------------------- taking the lock

\* s.mu.Lock() returns in caller p, which starts the write method of request r.
AcquireWrite(p, r) ==
    /\ CanLock
    /\ mu' = Locked
    /\ snap' = {Store}
    /\ req' = [req EXCEPT ![p] = r]
    /\ pc' = [pc EXCEPT ![p] = Entry(r.op)]
    /\ UNCHANGED <<users, emailIdx, usernameIdx, res, cur, userID, store0>>
    /\ UNCHANGED svcVars

\* s.mu.RLock() returns in caller p, which starts the read method of request r.
AcquireRead(p, r) ==
    /\ CanRLock
    /\ mu' = RLocked
    /\ req' = [req EXCEPT ![p] = r]
    /\ pc' = [pc EXCEPT ![p] = Entry(r.op)]
    /\ UNCHANGED <<users, emailIdx, usernameIdx, res, cur, userID, snap, store0>>
    /\ UNCHANGED svcVars

\* An idle caller calls a write method and gets the lock.
CallWrite(p) ==
    /\ pc[p] = "idle"
    /\ calls < MaxCalls
    /\ calls' = calls + 1
    /\ \E r \in WriteRequests : AcquireWrite(p, r)

\* An idle caller calls a read method and gets the read lock.
CallRead(p) ==
    /\ pc[p] = "idle"
    /\ calls < MaxCalls
    /\ calls' = calls + 1
    /\ \E r \in ReadRequests : AcquireRead(p, r)

\* ------------------------------------------------------------ CreateUser

\* The three existence checks of CreateUser.
CreateConflict(r) ==
    \/ Has(users, r.id)
    \/ Has(emailIdx, r.email)
    \/ Has(usernameIdx, r.username)

\* userCopy of CreateUser that keeps the IsActive its caller supplied.
NewUserAsSupplied(r) ==
    UserOf(r.id, r.email, r.username, r.active,
           [r.rest EXCEPT !.CreatedAt = now, !.UpdatedAt = now])

\* userCopy of CreateUser: the argument with the two timestamps set to
\* time.Now() and IsActive forced to true.
NewUser(r) ==
    UserOf(r.id, r.email, r.username, TRUE,
           [r.rest EXCEPT !.CreatedAt = now, !.UpdatedAt = now])

\* CreateUser that checks the identifier only and leaves the email and the
\* username to its caller's pre-checks.
CrCheckIDOnly(p) ==
    /\ pc[p] = "cr_check"
    /\ IF Has(users, req[p].id)
         THEN Return(p, Result(ErrUserExists, {}))
         ELSE Goto(p, "cr_users") /\ UNCHANGED res
    /\ UNCHANGED <<cur, userID>>
    /\ LocalsOnly
    /\ UNCHANGED svcVars

CrCheck(p) ==
    /\ pc[p] = "cr_check"
    /\ IF CreateConflict(req[p])
         THEN Return(p, Result(ErrUserExists, {}))
         ELSE Goto(p, "cr_users") /\ UNCHANGED res
    /\ UNCHANGED <<cur, userID>>
    /\ LocalsOnly
    /\ UNCHANGED svcVars

\* s.users[user.ID] = &userCopy
CrUsers(p) ==
    /\ pc[p] = "cr_users"
    /\ users' = MapPut(users, req[p].id, NewUser(req[p]))
    /\ Goto(p, "cr_email")
    /\ UNCHANGED <<emailIdx, usernameIdx, mu, req, res, cur, userID, snap, store0, calls>>
    /\ UNCHANGED svcVars

\* CreateUser without its emailIdx entry.
CrEmailSkipped(p) ==
    /\ pc[p] = "cr_email"
    /\ Goto(p, "cr_uname")
    /\ UNCHANGED <<users, emailIdx, usernameIdx, mu, req, res, cur, userID, snap, store0, calls>>
    /\ UNCHANGED svcVars

\* s.emailIdx[user.Email] = user.ID
CrEmail(p) ==
    /\ pc[p] = "cr_email"
    /\ emailIdx' = MapPut(emailIdx, req[p].email, req[p].id)
    /\ Goto(p, "cr_uname")
    /\ UNCHANGED <<users, usernameIdx, mu, req, res, cur, userID, snap, store0, calls>>
    /\ UNCHANGED svcVars

\* s.usernameIdx[user.Username] = user.ID; return nil
CrUname(p) ==
    /\ pc[p] = "cr_uname"
    /\ usernameIdx' = MapPut(usernameIdx, req[p].username, req[p].id)
    /\ Return(p, Result(NoErr, {}))
    /\ UNCHANGED <<users, emailIdx, mu, req, cur, userID, snap, store0, calls>>
    /\ UNCHANGED svcVars

\* ------------------------------------------------------------ UpdateUser

\* existingUser, exists := s.users[user.ID]
UpFind(p) ==
    /\ pc[p] = "up_find"
    /\ IF Has(users, req[p].id)
         THEN /\ cur' = [cur EXCEPT ![p] = users[req[p].id]]
              /\ Goto(p, "up_email")
              /\ UNCHANGED res
         ELSE /\ Return(p, Result(ErrUserNotFound, {}))
              /\ UNCHANGED cur
    /\ UNCHANGED userID
    /\ LocalsOnly
    /\ UNCHANGED svcVars

\* if user.Email != existingUser.Email { if exists { return ErrUserExists } ... }
UpEmail(p) ==
    /\ pc[p] = "up_email"
    /\ IF req[p].email # cur[p].Email
         THEN IF Has(emailIdx, req[p].email)
                THEN Return(p, Result(ErrUserExists, {}))
                ELSE Goto(p, "up_email_del") /\ UNCHANGED res
         ELSE Goto(p, "up_uname") /\ UNCHANGED res
    /\ UNCHANGED <<cur, userID>>
    /\ LocalsOnly
    /\ UNCHANGED svcVars

\* delete(s.emailIdx, existingUser.Email)
UpEmailDel(p) ==
    /\ pc[p] = "up_email_del"
    /\ emailIdx' = MapDelete(emailIdx, cur[p].Email)
    /\ Goto(p, "up_email_put")
    /\ UNCHANGED <<users, usernameIdx, mu, req, res, cur, userID, snap, store0, calls>>
    /\ UNCHANGED svcVars

\* s.emailIdx[user.Email] = user.ID
UpEmailPut(p) ==
    /\ pc[p] = "up_email_put"
    /\ emailIdx' = MapPut(emailIdx, req[p].email, req[p].id)
    /\ Goto(p, "up_uname")
    /\ UNCHANGED <<users, usernameIdx, mu, req, res, cur, userID, snap, store0, calls>>
    /\ UNCHANGED svcVars

\* if user.Username != existingUser.Username { if exists { return ErrUserExists } ... }
UpUname(p) ==
    /\ pc[p] = "up_uname"
    /\ IF req[p].username # cur[p].Username
         THEN IF Has(usernameIdx, req[p].username)
                THEN Return(p, Result(ErrUserExists, {}))
                ELSE Goto(p, "up_uname_del") /\ UNCHANGED res
         ELSE Goto(p, "up_users") /\ UNCHANGED res
    /\ UNCHANGED <<cur, userID>>
    /\ LocalsOnly
    /\ UNCHANGED svcVars

\* delete(s.usernameIdx, existingUser.Username)
UpUnameDel(p) ==
    /\ pc[p] = "up_uname_del"
    /\ usernameIdx' = MapDelete(usernameIdx, cur[p].Username)
    /\ Goto(p, "up_uname_put")
    /\ UNCHANGED <<users, emailIdx, mu, req, res, cur, userID, snap, store0, calls>>
    /\ UNCHANGED svcVars

\* s.usernameIdx[user.Username] = user.ID
UpUnamePut(p) ==
    /\ pc[p] = "up_uname_put"
    /\ usernameIdx' = MapPut(usernameIdx, req[p].username, req[p].id)
    /\ Goto(p, "up_users")
    /\ UNCHANGED <<users, emailIdx, mu, req, res, cur, userID, snap, store0, calls>>
    /\ UNCHANGED svcVars

\* userCopy of UpdateUser: the argument as given, UpdatedAt set to time.Now().
UpdatedUser(r) ==
    UserOf(r.id, r.email, r.username, r.active, [r.rest EXCEPT !.UpdatedAt = now])

\* s.users[user.ID] = &userCopy; return nil
UpUsers(p) ==
    /\ pc[p] = "up_users"
    /\ users' = MapPut(users, req[p].id, UpdatedUser(req[p]))
    /\ Return(p, Result(NoErr, {}))
    /\ UNCHANGED <<emailIdx, usernameIdx, mu, req, cur, userID, snap, store0, calls>>
    /\ UNCHANGED svcVars

\* ------------------------------------------------------------ DeleteUser

\* user, exists := s.users[id]
DelFind(p) ==
    /\ pc[p] = "del_find"
    /\ IF Has(users, req[p].id)
         THEN /\ cur' = [cur EXCEPT ![p] = users[req[p].id]]
              /\ Goto(p, "del_users")
              /\ UNCHANGED res
         ELSE /\ Return(p, Result(ErrUserNotFound, {}))
              /\ UNCHANGED cur
    /\ UNCHANGED userID
    /\ LocalsOnly
    /\ UNCHANGED svcVars

\* delete(s.users, id)
DelUsers(p) ==
    /\ pc[p] = "del_users"
    /\ users' = MapDelete(users, req[p].id)
    /\ Goto(p, "del_email")
    /\ UNCHANGED <<emailIdx, usernameIdx, mu, req, res, cur, userID, snap, store0, calls>>
    /\ UNCHANGED svcVars

\* delete(s.emailIdx, user.Email)
DelEmail(p) ==
    /\ pc[p] = "del_email"
    /\ emailIdx' = MapDelete(emailIdx, cur[p].Email)
    /\ Goto(p, "del_uname")
    /\ UNCHANGED <<users, usernameIdx, mu, req, res, cur, userID, snap, store0, calls>>
    /\ UNCHANGED svcVars

\* delete(s.usernameIdx, user.Username); return nil
DelUname(p) ==
    /\ pc[p] = "del_uname"
    /\ usernameIdx' = MapDelete(usernameIdx, cur[p].Username)
    /\ Return(p, Result(NoErr, {}))
    /\ UNCHANGED <<users, emailIdx, mu, req, cur, userID, snap, store0, calls>>
    /\ UNCHANGED svcVars

\* ------------------------------------------------------------- the reads

\* userCopy := *user, where user := m[k] is nil when k is absent.
Deref(id) ==
    IF Has(users, id) THEN Result(NoErr, {users[id]}) ELSE Result(NilDeref, {})

\* GetUserByID: user, exists := s.users[id]
GidRead(p) ==
    /\ pc[p] = "gid_read"
    /\ IF Has(users, req[p].id)
         THEN Return(p, Result(NoErr, {users[req[p].id]}))
         ELSE Return(p, Result(ErrUserNotFound, {}))
    /\ UNCHANGED <<cur, userID>>
    /\ LocalsOnly
    /\ UNCHANGED svcVars

\* GetUserByEmail: userID, exists := s.emailIdx[email]
GemIdx(p) ==
    /\ pc[p] = "gem_idx"
    /\ IF Has(emailIdx, req[p].email)
         THEN /\ userID' = [userID EXCEPT ![p] = emailIdx[req[p].email]]
              /\ Goto(p, "gem_rec")
              /\ UNCHANGED res
         ELSE /\ Return(p, Result(ErrUserNotFound, {}))
              /\ UNCHANGED userID
    /\ UNCHANGED cur
    /\ LocalsOnly
    /\ UNCHANGED svcVars

\* GetUserByEmail: user := s.users[userID]; userCopy := *user
GemRec(p) ==
    /\ pc[p] = "gem_rec"
    /\ Return(p, Deref(userID[p]))
    /\ UNCHANGED <<cur, userID>>
    /\ LocalsOnly
    /\ UNCHANGED svcVars

\* GetUserByUsername: userID, exists := s.usernameIdx[username]
GunIdx(p) ==
    /\ pc[p] = "gun_idx"
    /\ IF Has(usernameIdx, req[p].username)
         THEN /\ userID' = [userID EXCEPT ![p] = usernameIdx[req[p].username]]
              /\ Goto(p, "gun_rec")
              /\ UNCHANGED res
         ELSE /\ Return(p, Result(ErrUserNotFound, {}))
              /\ UNCHANGED userID
    /\ UNCHANGED cur
    /\ LocalsOnly
    /\ UNCHANGED svcVars

\* GetUserByUsername: user := s.users[userID]; userCopy := *user
GunRec(p) ==
    /\ pc[p] = "gun_rec"
    /\ Return(p, Deref(userID[p]))
    /\ UNCHANGED <<cur, userID>>
    /\ LocalsOnly
    /\ UNCHANGED svcVars

\* ListUsers: a copy of every record, in no order.
ListRead(p) ==
    /\ pc[p] = "list_read"
    /\ Return(p, Result(NoErr, {users[i] : i \in DOMAIN users}))
    /\ UNCHANGED <<cur, userID>>
    /\ LocalsOnly
    /\ UNCHANGED svcVars

\* ------------------------------------------------- the deferred unlock

\* An unlock written before the final return only: the error returns and the
\* panic leave with the lock held.
ReleaseOnSuccess(p) ==
    IF res[p].err # NoErr
      THEN UNCHANGED <<mu, snap>>
      ELSE IF req[p].op \in WriteOps
        THEN mu' = Unlocked /\ snap' = {}
        ELSE mu' = RUnlocked /\ UNCHANGED snap

\* defer s.mu.Unlock() / s.mu.RUnlock(): the lock goes back as the method returns.
Release(p) ==
    IF req[p].op \in WriteOps
      THEN mu' = Unlocked /\ snap' = {}
      ELSE mu' = RUnlocked /\ UNCHANGED snap

\* The method returns; the caller is free to call again.
Finish(p) ==
    /\ pc[p] = "ret"
    /\ Release(p)
    /\ pc' = [pc EXCEPT ![p] = "idle"]
    /\ req' = [req EXCEPT ![p] = NoRequest]
    /\ res' = [res EXCEPT ![p] = NoResult]
    /\ cur' = [cur EXCEPT ![p] = NilUser]
    /\ userID' = [userID EXCEPT ![p] = 0]
    /\ UNCHANGED <<users, emailIdx, usernameIdx, store0, calls>>
    /\ UNCHANGED svcVars

\* One statement of the method caller p is inside.
Step(p) ==
    \/ CrCheck(p) \/ CrUsers(p) \/ CrEmail(p) \/ CrUname(p)
    \/ UpFind(p) \/ UpEmail(p) \/ UpEmailDel(p) \/ UpEmailPut(p)
    \/ UpUname(p) \/ UpUnameDel(p) \/ UpUnamePut(p) \/ UpUsers(p)
    \/ DelFind(p) \/ DelUsers(p) \/ DelEmail(p) \/ DelUname(p)
    \/ GidRead(p) \/ GemIdx(p) \/ GemRec(p) \/ GunIdx(p) \/ GunRec(p)
    \/ ListRead(p)

\* Any number of calls by every caller, in any order the lock allows.
Next == \E p \in Callers : CallWrite(p) \/ CallRead(p) \/ Step(p) \/ Finish(p)

Spec == Init /\ [][Next]_vars

\* ===================================================================
\* Concurrent calls: every caller makes one call, all started together
\* ===================================================================

\* CreateUser that stores the record and its username key but no email key.
AfterCreateWithoutEmailKey(s, r) ==
    [users |-> MapPut(s.users, r.id, NewUser(r)),
     emailIdx |-> s.emailIdx,
     usernameIdx |-> MapPut(s.usernameIdx, r.username, r.id)]

\* The store after a successful CreateUser(r) (lines 95-97).
AfterCreate(s, r) ==
    [users |-> MapPut(s.users, r.id, NewUser(r)),
     emailIdx |-> MapPut(s.emailIdx, r.email, r.id),
     usernameIdx |-> MapPut(s.usernameIdx, r.username, r.id)]

\* Stores the calls start from, each left by earlier calls on a new store:
\*   SeedOne      CreateUser{1, a@x.com, alice}
\*   SeedTwo      then CreateUser{2, b@x.com, bob}
\*   SeedTorn     then UpdateUser{1, c@x.com, bob}, which returns ErrUserExists
\*                after it retargeted emailIdx (lines 163-164, 170)
\*   SeedDangling then DeleteUser(1), which deletes users[1],
\*                emailIdx[a@x.com] and usernameIdx[alice] (lines 196-198)
SeedOne == AfterCreate(EmptyStore, Request("CreateUser", 1, "a@x.com", "alice", FALSE))
SeedTwo == AfterCreate(SeedOne, Request("CreateUser", 2, "b@x.com", "bob", FALSE))
SeedTorn ==
    [SeedTwo EXCEPT !.emailIdx = MapPut(MapDelete(@, "a@x.com"), "c@x.com", 1)]
SeedDangling ==
    [users |-> MapDelete(SeedTorn.users, 1),
     emailIdx |-> MapDelete(SeedTorn.emailIdx, "a@x.com"),
     usernameIdx |-> MapDelete(SeedTorn.usernameIdx, "alice")]
Seeds == {EmptyStore, SeedOne, SeedTwo, SeedTorn, SeedDangling}

\* What the callers call: all of them CreateUser, each with an identifier of
\* its own (Register passes a fresh random one, service.go:68-76), or one of
\* them a write method and the others read methods.
Scenarios ==
    {f \in [Callers -> CreateRequests({OwnID(p) : p \in Callers}, Emails, Usernames)] :
        \A p \in Callers : f[p].id = OwnID(p)}
        \cup {f \in [Callers -> WriteRequests \cup ReadRequests] :
                 Cardinality({p \in Callers : f[p].op \in WriteOps}) = 1}

InitOnce ==
    /\ SvcInit
    /\ store0 \in Seeds
    /\ users = store0.users
    /\ emailIdx = store0.emailIdx
    /\ usernameIdx = store0.usernameIdx
    /\ mu = [writer |-> FALSE, readers |-> 0]
    /\ req \in Scenarios
    /\ pc = [p \in Callers |-> "wait"]
    /\ res = [p \in Callers |-> NoResult]
    /\ cur = [p \in Callers |-> NilUser]
    /\ userID = [p \in Callers |-> 0]
    /\ snap = {}
    /\ calls = NumCallers

\* s.mu.Lock() returns in a caller that was blocked in it.
LockWaiting(p) ==
    /\ pc[p] = "wait"
    /\ req[p].op \in WriteOps
    /\ AcquireWrite(p, req[p])
    /\ UNCHANGED calls

\* s.mu.RLock() returns in a caller that was blocked in it.
RLockWaiting(p) ==
    /\ pc[p] = "wait"
    /\ req[p].op \in ReadOps
    /\ AcquireRead(p, req[p])
    /\ UNCHANGED calls

\* The method returns to its caller, which keeps what it got.
Done(p) ==
    /\ pc[p] = "ret"
    /\ Release(p)
    /\ pc' = [pc EXCEPT ![p] = "done"]
    /\ cur' = [cur EXCEPT ![p] = NilUser]
    /\ userID' = [userID EXCEPT ![p] = 0]
    /\ UNCHANGED <<users, emailIdx, usernameIdx, req, res, store0, calls>>
    /\ UNCHANGED svcVars

NextOnce == \E p \in Callers : LockWaiting(p) \/ RLockWaiting(p) \/ Step(p) \/ Done(p)

SpecOnce == InitOnce /\ [][NextOnce]_vars

\* What read request r returns on store s when nothing writes meanwhile.
Observe(s, r) ==
    CASE r.op = "GetUserByID" ->
             IF Has(s.users, r.id)
               THEN Result(NoErr, {s.users[r.id]})
               ELSE Result(ErrUserNotFound, {})
      [] r.op = "GetUserByEmail" ->
             IF ~Has(s.emailIdx, r.email) THEN Result(ErrUserNotFound, {})
             ELSE IF Has(s.users, s.emailIdx[r.email])
               THEN Result(NoErr, {s.users[s.emailIdx[r.email]]})
               ELSE Result(NilDeref, {})
      [] r.op = "GetUserByUsername" ->
             IF ~Has(s.usernameIdx, r.username) THEN Result(ErrUserNotFound, {})
             ELSE IF Has(s.users, s.usernameIdx[r.username])
               THEN Result(NoErr, {s.users[s.usernameIdx[r.username]]})
               ELSE Result(NilDeref, {})
      [] r.op = "ListUsers" ->
             Result(NoErr, {s.users[i] : i \in DOMAIN s.users})

\* UpdateUser that inserts the new keys and leaves the old ones in the indexes.
AfterUpdateKeepingKeys(s, r) ==
    IF ~Has(s.users, r.id) THEN [store |-> s, res |-> Result(ErrUserNotFound, {})]
    ELSE IF \/ r.email # s.users[r.id].Email /\ Has(s.emailIdx, r.email)
            \/ r.username # s.users[r.id].Username /\ Has(s.usernameIdx, r.username)
      THEN [store |-> s, res |-> Result(ErrUserExists, {})]
      ELSE [store |-> [users |-> MapPut(s.users, r.id, UpdatedUser(r)),
                       emailIdx |-> MapPut(s.emailIdx, r.email, r.id),
                       usernameIdx |-> MapPut(s.usernameIdx, r.username, r.id)],
            res |-> Result(NoErr, {})]

\* The store after UpdateUser(r) has run on store s, and what it returns. The
\* email index is retargeted before the username is looked at, so the return
\* on a taken username leaves the retargeted index behind.
AfterUpdate(s, r) ==
    IF ~Has(s.users, r.id) THEN [store |-> s, res |-> Result(ErrUserNotFound, {})]
    ELSE LET existingUser == s.users[r.id]
             emailTaken == r.email # existingUser.Email /\ Has(s.emailIdx, r.email)
             e1 == IF r.email # existingUser.Email
                     THEN MapPut(MapDelete(s.emailIdx, existingUser.Email), r.email, r.id)
                     ELSE s.emailIdx
             usernameTaken ==
                 r.username # existingUser.Username /\ Has(s.usernameIdx, r.username)
             u1 == IF r.username # existingUser.Username
                     THEN MapPut(MapDelete(s.usernameIdx, existingUser.Username),
                                 r.username, r.id)
                     ELSE s.usernameIdx
         IN IF emailTaken THEN [store |-> s, res |-> Result(ErrUserExists, {})]
            ELSE IF usernameTaken
              THEN [store |-> [s EXCEPT !.emailIdx = e1],
                    res |-> Result(ErrUserExists, {})]
              ELSE [store |-> [users |-> MapPut(s.users, r.id, UpdatedUser(r)),
                               emailIdx |-> e1, usernameIdx |-> u1],
                    res |-> Result(NoErr, {})]

\* The store after DeleteUser(r.id) has run on store s, and what it returns.
AfterDelete(s, r) ==
    IF ~Has(s.users, r.id) THEN [store |-> s, res |-> Result(ErrUserNotFound, {})]
    ELSE [store |-> [users |-> MapDelete(s.users, r.id),
                     emailIdx |-> MapDelete(s.emailIdx, s.users[r.id].Email),
                     usernameIdx |-> MapDelete(s.usernameIdx, s.users[r.id].Username)],
          res |-> Result(NoErr, {})]

\* GetUserByID that returns the pointer it found in the map.
SharedWithInternal(s, r) ==
    IF r.op = "GetUserByID" /\ Has(s.users, r.id) THEN {r.id} ELSE {}

\* The entries of users, in the store s that method r left, that point at the
\* object its caller holds (the record it passed or the one it got): none.
\* CreateUser and UpdateUser store &userCopy and the lookups return &userCopy,
\* each a new object that holds every field of User by value.
SharedWith(s, r) == {}

\* A whole store method, from its Lock to its Unlock: the store it leaves and
\* what it returns, when it runs on store s.
Effect(s, r) ==
    CASE r.op = "CreateUser" ->
             IF \/ Has(s.users, r.id)
                \/ Has(s.emailIdx, r.email)
                \/ Has(s.usernameIdx, r.username)
               THEN [store |-> s, res |-> Result(ErrUserExists, {})]
               ELSE [store |-> AfterCreate(s, r), res |-> Result(NoErr, {})]
      [] r.op = "UpdateUser" -> AfterUpdate(s, r)
      [] r.op = "DeleteUser" -> AfterDelete(s, r)
      [] OTHER -> [store |-> s, res |-> Observe(s, r)]

\* ===================================================================
\* The auth service on top of the store
\* ===================================================================

\* The values the callers of the service pass: emails, usernames, passwords
\* (byte strings; the last is 73 bytes long), and an email no one registers.
AuthEmails == {"a@x.com", "b@x.com"}
AuthUsernames == {"alice", "bob"}
SpareEmail == "c@x.com"
Password1 == <<112, 119, 100, 49, 50, 51>>
Password2 == <<112, 119, 100, 49, 50, 52>>
LongPassword == [i \in 1..73 |-> 120]

\* What a service step leaves alone in the store and in the running store call.
SvcFrame ==
    UNCHANGED <<users, emailIdx, usernameIdx, mu, cur, userID, snap, store0, boot, http>>

\* The same for the step that begins a call, which notes the store it finds,
\* and for the step that ends one.
CallFrame ==
    /\ store0' = Store
    /\ UNCHANGED <<users, emailIdx, usernameIdx, mu, cur, userID, snap, boot, http>>
EndFrame ==
    /\ store0' = EmptyStore
    /\ UNCHANGED <<users, emailIdx, usernameIdx, mu, cur, userID, snap, boot, http>>

\* The service method of caller p calls store method r and blocks in its lock.
CallStore(p, r) ==
    /\ req' = [req EXCEPT ![p] = r]
    /\ pc' = [pc EXCEPT ![p] = "wait"]
    /\ res' = [res EXCEPT ![p] = NoResult]

\* A store method that hands its result to the caller with its lock still held.
ReturnedStillLocked(p) == pc[p] \in {"ret", "done"}

\* The store method that caller p called has returned.
Returned(p) == pc[p] = "done"

\* The store method of caller p returned a record: the copy it returned.
Got(p) == CHOOSE u \in res[p].val : TRUE

\* Caller p has taken what the store method returned.
StoreIdle(p) ==
    /\ pc' = [pc EXCEPT ![p] = "idle"]
    /\ req' = [req EXCEPT ![p] = NoRequest]
    /\ res' = [res EXCEPT ![p] = NoResult]

\* The service method of caller p goes on at `to`, or returns r.
SvcGoto(p, to) == spc' = [spc EXCEPT ![p] = to] /\ UNCHANGED sres
SvcReturn(p, r) == spc' = [spc EXCEPT ![p] = "sret"] /\ sres' = [sres EXCEPT ![p] = r]

\* return nil, err
Fail(err) == SvcResult(err, NoToken, NoUserInfo, 0)

\* ------------------------------------------------------------- Register

RegisterRequests ==
    {SvcRequest("Register", e, u, Password1, NoToken, 0) :
        e \in AuthEmails, u \in AuthUsernames}
        \cup {SvcRequest("Register", SpareEmail, "carol", LongPassword, NoToken, 0)}

\* Register is called with request r: s.userStore.GetUserByEmail(req.Email)
RegisterCalled(p, r) ==
    /\ spc[p] = "idle"
    /\ calls < MaxRequests
    /\ calls' = calls + 1
    /\ sreq' = [sreq EXCEPT ![p] = r]
    /\ CallStore(p, Request("GetUserByEmail", 0, r.email, "", FALSE))
    /\ SvcGoto(p, "reg_email")
    /\ UNCHANGED <<now, loc, issued, enrolled, nextID, shared>>
    /\ CallFrame

CallRegister(p) == \E r \in RegisterRequests : RegisterCalled(p, r)

\* if _, err := GetUserByEmail(...); err == nil { return nil, ErrUserExists };
\* s.userStore.GetUserByUsername(req.Username)
RegEmail(p) ==
    /\ spc[p] = "reg_email"
    /\ Returned(p)
    /\ IF res[p].err = NoErr
         THEN SvcReturn(p, Fail(AuthErrUserExists)) /\ StoreIdle(p)
         ELSE IF res[p].err = NilDeref
           THEN SvcReturn(p, Fail(NilDeref)) /\ StoreIdle(p)
           ELSE /\ SvcGoto(p, "reg_uname")
                /\ CallStore(p, Request("GetUserByUsername", 0, "", sreq[p].username, FALSE))
    /\ UNCHANGED <<calls, now, sreq, loc, issued, enrolled, nextID, shared>>
    /\ SvcFrame

\* Register without its username pre-check.
RegUnameUnchecked(p) ==
    /\ spc[p] = "reg_uname"
    /\ Returned(p)
    /\ SvcGoto(p, "reg_hash")
    /\ StoreIdle(p)
    /\ UNCHANGED <<calls, now, sreq, loc, issued, enrolled, nextID, shared>>
    /\ SvcFrame

\* if _, err := GetUserByUsername(...); err == nil { return nil, ErrUserExists }
RegUname(p) ==
    /\ spc[p] = "reg_uname"
    /\ Returned(p)
    /\ IF res[p].err = NoErr
         THEN SvcReturn(p, Fail(AuthErrUserExists))
         ELSE IF res[p].err = NilDeref
           THEN SvcReturn(p, Fail(NilDeref))
           ELSE SvcGoto(p, "reg_hash")
    /\ StoreIdle(p)
    /\ UNCHANGED <<calls, now, sreq, loc, issued, enrolled, nextID, shared>>
    /\ SvcFrame

\* generateID: an identifier no one has got before (16 random bytes in hex).
generateID == nextID + 1

\* The *storage.User that Register builds.
RegisteredUser(r, hash, id) ==
    UserOf(id, r.email, r.username, FALSE, Rest(hash, r.first, r.last, 0, 0))

\* hashedPassword, err := s.hashPassword(req.Password); userID, err :=
\* s.generateID(); user := &storage.User{...}; s.userStore.CreateUser(user)
RegHash(p) ==
    /\ spc[p] = "reg_hash"
    /\ LET h == hashPassword(sreq[p].password)
           user == RegisteredUser(sreq[p], h.hash, generateID)
       IN IF h.err # NoErr
            THEN /\ SvcReturn(p, Fail(h.err))
                 /\ UNCHANGED <<pc, req, res, loc, nextID>>
            ELSE /\ nextID' = generateID
                 /\ loc' = [loc EXCEPT ![p] = user]
                 /\ CallStore(p, RequestOf("CreateUser", user.ID, user.Email,
                                           user.Username, FALSE, RestOf(user)))
                 /\ SvcGoto(p, "reg_create")
    /\ UNCHANGED <<calls, now, sreq, issued, enrolled, shared>>
    /\ SvcFrame

\* A record as CreateUser stored it for Register, and the password it was
\* registered with.
Enrolled(user, password) == [user |-> user, password |-> password]

\* if err := s.userStore.CreateUser(user); err != nil { return nil, err }
RegCreate(p) ==
    /\ spc[p] = "reg_create"
    /\ Returned(p)
    /\ IF res[p].err # NoErr
         THEN SvcReturn(p, Fail(res[p].err)) /\ UNCHANGED enrolled
         ELSE /\ SvcGoto(p, "reg_token")
              /\ enrolled' = enrolled \cup {Enrolled(users[loc[p].ID], sreq[p].password)}
    /\ StoreIdle(p)
    /\ UNCHANGED <<calls, now, sreq, loc, issued, nextID, shared>>
    /\ SvcFrame

\* token, expiresAt, err := s.generateToken(user); return &LoginResponse{...}
IssueToken(p) ==
    /\ LET g == generateToken(loc[p])
       IN /\ issued' = issued \cup {g.token}
          /\ SvcReturn(p, SvcResult(NoErr, g.token, userToUserInfo(loc[p]), g.expiresAt))
    /\ UNCHANGED <<pc, req, res, calls, now, sreq, loc, enrolled, nextID, shared>>
    /\ SvcFrame

RegToken(p) == spc[p] = "reg_token" /\ IssueToken(p)

\* ---------------------------------------------------------------- Login

LoginRequests ==
    {SvcRequest("Login", e, "", pw, NoToken, 0) :
        e \in AuthEmails, pw \in {Password1, Password2}}

\* Login is called with request r: s.userStore.GetUserByEmail(req.Email)
LoginCalled(p, r) ==
    /\ spc[p] = "idle"
    /\ calls < MaxRequests
    /\ calls' = calls + 1
    /\ sreq' = [sreq EXCEPT ![p] = r]
    /\ CallStore(p, Request("GetUserByEmail", 0, r.email, "", FALSE))
    /\ SvcGoto(p, "login_email")
    /\ UNCHANGED <<now, loc, issued, enrolled, nextID, shared>>
    /\ CallFrame

CallLogin(p) == \E r \in LoginRequests : LoginCalled(p, r)

\* Login that tells a missing email apart: ErrUserNotFound for it.
LoginEmailRevealing(p) ==
    /\ spc[p] = "login_email"
    /\ Returned(p)
    /\ IF res[p].err = ErrUserNotFound
         THEN SvcReturn(p, Fail(AuthErrUserNotFound)) /\ UNCHANGED loc
         ELSE IF res[p].err # NoErr
           THEN SvcReturn(p, Fail(res[p].err)) /\ UNCHANGED loc
           ELSE IF ~Got(p).IsActive
             THEN SvcReturn(p, Fail(ErrInvalidCredentials)) /\ UNCHANGED loc
             ELSE SvcGoto(p, "login_verify") /\ loc' = [loc EXCEPT ![p] = Got(p)]
    /\ StoreIdle(p)
    /\ UNCHANGED <<calls, now, sreq, issued, enrolled, nextID, shared>>
    /\ SvcFrame

\* Login without its IsActive check.
LoginEmailIgnoringActive(p) ==
    /\ spc[p] = "login_email"
    /\ Returned(p)
    /\ IF res[p].err = ErrUserNotFound
         THEN SvcReturn(p, Fail(ErrInvalidCredentials)) /\ UNCHANGED loc
         ELSE IF res[p].err # NoErr
           THEN SvcReturn(p, Fail(res[p].err)) /\ UNCHANGED loc
           ELSE SvcGoto(p, "login_verify") /\ loc' = [loc EXCEPT ![p] = Got(p)]
    /\ StoreIdle(p)
    /\ UNCHANGED <<calls, now, sreq, issued, enrolled, nextID, shared>>
    /\ SvcFrame

\* if err != nil { if err == storage.ErrUserNotFound { return nil,
\* ErrInvalidCredentials }; return nil, err }; if !user.IsActive { return nil,
\* ErrInvalidCredentials }
LoginEmail(p) ==
    /\ spc[p] = "login_email"
    /\ Returned(p)
    /\ IF res[p].err = ErrUserNotFound
         THEN SvcReturn(p, Fail(ErrInvalidCredentials)) /\ UNCHANGED loc
         ELSE IF res[p].err # NoErr
           THEN SvcReturn(p, Fail(res[p].err)) /\ UNCHANGED loc
           ELSE IF ~Got(p).IsActive
             THEN SvcReturn(p, Fail(ErrInvalidCredentials)) /\ UNCHANGED loc
             ELSE SvcGoto(p, "login_verify") /\ loc' = [loc EXCEPT ![p] = Got(p)]
    /\ StoreIdle(p)
    /\ UNCHANGED <<calls, now, sreq, issued, enrolled, nextID, shared>>
    /\ SvcFrame

\* if err := s.verifyPassword(user.PasswordHash, req.Password); err != nil {
\* return nil, ErrInvalidCredentials }
LoginVerify(p) ==
    /\ spc[p] = "login_verify"
    /\ IF verifyPassword(loc[p].PasswordHash, sreq[p].password) # NoErr
         THEN SvcReturn(p, Fail(ErrInvalidCredentials))
         ELSE SvcGoto(p, "login_token")
    /\ UNCHANGED <<pc, req, res, calls, now, sreq, loc, issued, enrolled, nextID, shared>>
    /\ SvcFrame

LoginToken(p) == spc[p] = "login_token" /\ IssueToken(p)

\* -------------------------------------------------------- ValidateToken

\* What someone without the secret makes of a token the service signed: the
\* same header and claims signed with a secret of their own, the claims under
\* a header that names no signature or a public-key method, and a string that
\* is no token.
OtherSecret == "not-the-secret"
Forgeries(t) ==
    {[t EXCEPT !.key = OtherSecret], [t EXCEPT !.alg = "none", !.key = ""],
     [t EXCEPT !.alg = "RS256", !.key = JWTSecret], Malformed}

\* ValidateToken is called with token string t:
\* jwt.ParseWithClaims at time.Now(); if err != nil { return nil, ErrInvalidToken }
ValidateCalled(p, t) ==
    /\ spc[p] = "idle"
    /\ calls < MaxRequests
    /\ calls' = calls + 1
    /\ sreq' = [sreq EXCEPT ![p] = SvcRequest("ValidateToken", "", "", <<>>, t, 0)]
    /\ IF ParseWithClaims(t, now) # NoErr
         THEN SvcReturn(p, Fail(ErrInvalidToken))
         ELSE SvcGoto(p, "val_exp")
    /\ UNCHANGED <<pc, req, res, now, loc, issued, enrolled, nextID, shared>>
    /\ CallFrame

\* ValidateToken is called with a token the service has signed or with a
\* forgery of one.
CallValidate(p) ==
    \E t \in issued \cup UNION {Forgeries(i) : i \in issued} : ValidateCalled(p, t)

\* if claims.ExpiresAt.Time.Before(time.Now()) { return nil, ErrTokenExpired };
\* s.userStore.GetUserByID(claims.UserID)
ValExpiry(p) ==
    /\ spc[p] = "val_exp"
    /\ IF sreq[p].token.ExpiresAt < now
         THEN SvcReturn(p, Fail(ErrTokenExpired)) /\ UNCHANGED <<pc, req, res>>
         ELSE /\ SvcGoto(p, "val_get")
              /\ CallStore(p, Request("GetUserByID", sreq[p].token.UserID, "", "", FALSE))
    /\ UNCHANGED <<calls, now, sreq, loc, issued, enrolled, nextID, shared>>
    /\ SvcFrame

\* ValidateToken that answers with the email and username of the claims.
ValUserFromClaims(p) ==
    /\ spc[p] = "val_get"
    /\ Returned(p)
    /\ IF res[p].err = ErrUserNotFound
         THEN SvcReturn(p, Fail(ErrInvalidToken)) /\ UNCHANGED loc
         ELSE IF res[p].err # NoErr
           THEN SvcReturn(p, Fail(res[p].err)) /\ UNCHANGED loc
           ELSE IF ~Got(p).IsActive
             THEN SvcReturn(p, Fail(ErrInvalidToken)) /\ loc' = [loc EXCEPT ![p] = Got(p)]
             ELSE /\ SvcReturn(p, SvcResult(NoErr, NoToken,
                                 userToUserInfo([Got(p) EXCEPT
                                                    !.Email = sreq[p].token.Email,
                                                    !.Username = sreq[p].token.Username]),
                                 0))
                  /\ loc' = [loc EXCEPT ![p] = Got(p)]
    /\ StoreIdle(p)
    /\ UNCHANGED <<calls, now, sreq, issued, enrolled, nextID, shared>>
    /\ SvcFrame

\* ValidateToken without its IsActive check.
ValUserIgnoringActive(p) ==
    /\ spc[p] = "val_get"
    /\ Returned(p)
    /\ IF res[p].err = ErrUserNotFound
         THEN SvcReturn(p, Fail(ErrInvalidToken)) /\ UNCHANGED loc
         ELSE IF res[p].err # NoErr
           THEN SvcReturn(p, Fail(res[p].err)) /\ UNCHANGED loc
           ELSE /\ SvcReturn(p, SvcResult(NoErr, NoToken, userToUserInfo(Got(p)), 0))
                /\ loc' = [loc EXCEPT ![p] = Got(p)]
    /\ StoreIdle(p)
    /\ UNCHANGED <<calls, now, sreq, issued, enrolled, nextID, shared>>
    /\ SvcFrame

\* if err != nil { if err == storage.ErrUserNotFound { return nil,
\* ErrInvalidToken }; return nil, err }; if !user.IsActive { return nil,
\* ErrInvalidToken }; return &userInfo, nil
ValUser(p) ==
    /\ spc[p] = "val_get"
    /\ Returned(p)
    /\ IF res[p].err = ErrUserNotFound
         THEN SvcReturn(p, Fail(ErrInvalidToken)) /\ UNCHANGED loc
         ELSE IF res[p].err # NoErr
           THEN SvcReturn(p, Fail(res[p].err)) /\ UNCHANGED loc
           ELSE IF ~Got(p).IsActive
             THEN SvcReturn(p, Fail(ErrInvalidToken)) /\ loc' = [loc EXCEPT ![p] = Got(p)]
             ELSE /\ SvcReturn(p, SvcResult(NoErr, NoToken, userToUserInfo(Got(p)), 0))
                  /\ loc' = [loc EXCEPT ![p] = Got(p)]
    /\ StoreIdle(p)
    /\ UNCHANGED <<calls, now, sreq, issued, enrolled, nextID, shared>>
    /\ SvcFrame

\* ------------------------------------------------------- GetUserProfile

\* GetUserProfile is called for identifier i: s.userStore.GetUserByID(userID)
ProfileCalled(p, i) ==
    /\ spc[p] = "idle"
    /\ calls < MaxRequests
    /\ calls' = calls + 1
    /\ sreq' = [sreq EXCEPT ![p] = SvcRequest("GetUserProfile", "", "", <<>>, NoToken, i)]
    /\ CallStore(p, Request("GetUserByID", i, "", "", FALSE))
    /\ SvcGoto(p, "prof_get")
    /\ UNCHANGED <<now, loc, issued, enrolled, nextID, shared>>
    /\ CallFrame

CallProfile(p) == \E i \in 1..(nextID + 1) : ProfileCalled(p, i)

\* if err != nil { if err == storage.ErrUserNotFound { return nil,
\* ErrUserNotFound }; return nil, err }; return &userInfo, nil
ProfUser(p) ==
    /\ spc[p] = "prof_get"
    /\ Returned(p)
    /\ IF res[p].err = ErrUserNotFound
         THEN SvcReturn(p, Fail(AuthErrUserNotFound))
         ELSE IF res[p].err # NoErr
           THEN SvcReturn(p, Fail(res[p].err))
           ELSE SvcReturn(p, SvcResult(NoErr, NoToken, userToUserInfo(Got(p)), 0))
    /\ StoreIdle(p)
    /\ UNCHANGED <<calls, now, sreq, loc, issued, enrolled, nextID, shared>>
    /\ SvcFrame

\* Handler.Login: the status and the message it answers with for what
\* Service.Login returned.
HandlerLogin(err) ==
    IF err = NoErr THEN [status |-> 200, message |-> "Login successful"]
    ELSE IF err \in {ErrInvalidCredentials, AuthErrUserNotFound}
      THEN [status |-> 401, message |-> "Invalid email or password"]
      ELSE [status |-> 500, message |-> "Login failed"]

\* The method of the service returns to its caller.
SvcFinish(p) ==
    /\ spc[p] = "sret"
    /\ spc' = [spc EXCEPT ![p] = "idle"]
    /\ sreq' = [sreq EXCEPT ![p] = NoSvcRequest]
    /\ sres' = [sres EXCEPT ![p] = NoSvcResult]
    /\ loc' = [loc EXCEPT ![p] = NilUser]
    /\ UNCHANGED <<pc, req, res, calls, now, issued, enrolled, nextID, shared>>
    /\ EndFrame

\* ------------------------------------- writes made directly on the store

\* What other code holding the UserStore passes to it for a stored record u:
\* the record made inactive, the record with another email or username, or
\* its identifier to DeleteUser.
DirectRequests(u) ==
    {RequestOf("UpdateUser", u.ID, u.Email, u.Username, FALSE, RestOf(u))}
        \cup {RequestOf("UpdateUser", u.ID, SpareEmail, n, u.IsActive, RestOf(u)) :
                 n \in AuthUsernames}
        \cup DeleteRequests({u.ID})

\* UpdateUser or DeleteUser is called on the store of the service.
CallDirect(p) ==
    /\ spc[p] = "idle"
    /\ calls < MaxRequests
    /\ calls' = calls + 1
    /\ \E i \in DOMAIN users : \E r \in DirectRequests(users[i]) : CallStore(p, r)
    /\ SvcGoto(p, "direct")
    /\ UNCHANGED <<now, sreq, loc, issued, enrolled, nextID, shared>>
    /\ CallFrame

\* The method called directly on the store has returned.
DirectDone(p) ==
    /\ spc[p] = "direct"
    /\ Returned(p)
    /\ StoreIdle(p)
    /\ SvcGoto(p, "idle")
    /\ shared' = [shared EXCEPT ![p] = {}]
    /\ UNCHANGED <<calls, now, sreq, loc, issued, enrolled, nextID>>
    /\ EndFrame

\* ------------------------------------------------------------ the clock

\* Time passes.
Tick ==
    /\ now < MaxTime
    /\ now' = now + 1
    /\ UNCHANGED <<users, emailIdx, usernameIdx, mu, pc, req, res, cur, userID, snap,
                   store0, calls, spc, sreq, sres, loc, issued, enrolled, shared, boot, http,
                   nextID>>

\* The store method that caller p called runs from its Lock to its Unlock.
StoreCall(p) ==
    /\ pc[p] = "wait"
    /\ IF req[p].op \in WriteOps THEN CanLock ELSE CanRLock
    /\ LET o == Effect(Store, req[p])
       IN /\ users' = o.store.users
          /\ emailIdx' = o.store.emailIdx
          /\ usernameIdx' = o.store.usernameIdx
          /\ res' = [res EXCEPT ![p] = o.res]
          /\ shared' = [shared EXCEPT ![p] = SharedWith(o.store, req[p])]
    /\ pc' = [pc EXCEPT ![p] = "done"]
    /\ UNCHANGED <<mu, req, cur, userID, snap, store0, calls>>
    /\ UNCHANGED <<now, spc, sreq, sres, loc, issued, enrolled, boot, http, nextID>>

\* One step of the service method that caller p runs.
SvcStep(p) ==
    \/ CallRegister(p) \/ RegEmail(p) \/ RegUname(p) \/ RegHash(p)
    \/ RegCreate(p) \/ RegToken(p)
    \/ CallLogin(p) \/ LoginEmail(p) \/ LoginVerify(p) \/ LoginToken(p)
    \/ CallValidate(p) \/ ValExpiry(p) \/ ValUser(p)
    \/ CallProfile(p) \/ ProfUser(p)
    \/ SvcFinish(p)
    \/ CallDirect(p) \/ DirectDone(p)

\* The caller whose calls follow one another.
Client == CHOOSE p \in Callers : \A q \in Callers : p <= q

NextAuth == Tick \/ SvcStep(Client) \/ StoreCall(Client)

\* One call after another, of the service and of its store, on a new store,
\* while time passes.
SpecAuth == Init /\ [][NextAuth]_vars

\* ---------------------------------------------------- concurrent Registers

\* What the callers register with: all of them the same email, or all of
\* them the same username.
RaceRequests ==
    {SvcRequest("Register", e, u, Password1, NoToken, 0) : e \in Emails, u \in Usernames}
RaceScenarios ==
    {f \in [Callers -> RaceRequests] :
        \/ \A p, q \in Callers : f[p].email = f[q].email
        \/ \A p, q \in Callers : f[p].username = f[q].username}

\* Every caller has called Register and is about to make its first store
\* call; the store is one that earlier calls left.
RaceStart ==
    /\ now = 1
    /\ store0 \in Seeds
    /\ users = store0.users
    /\ emailIdx = store0.emailIdx
    /\ usernameIdx = store0.usernameIdx
    /\ mu = [writer |-> FALSE, readers |-> 0]
    /\ sreq \in RaceScenarios
    /\ spc = [p \in Callers |-> "reg_email"]
    /\ sres = [p \in Callers |-> NoSvcResult]
    /\ loc = [p \in Callers |-> NilUser]
    /\ req = [p \in Callers |-> Request("GetUserByEmail", 0, sreq[p].email, "", FALSE)]
    /\ pc = [p \in Callers |-> "wait"]
    /\ res = [p \in Callers |-> NoResult]
    /\ cur = [p \in Callers |-> NilUser]
    /\ userID = [p \in Callers |-> 0]
    /\ snap = {}
    /\ calls = NumCallers
    /\ issued = {}
    /\ enrolled = {}
    /\ shared = [p \in Callers |-> {}]
    /\ boot = Booted
    /\ nextID = Cardinality(SeqIDs)

\* The Registers were called directly, by no request.
InitRace == RaceStart /\ http = [p \in Callers |-> NoExchange]

\* One step of caller p's Register, or of the store method it called.
RaceStep(p) ==
    \/ RegEmail(p) \/ RegUname(p) \/ RegHash(p) \/ RegCreate(p) \/ RegToken(p)
    \/ LockWaiting(p) \/ RLockWaiting(p) \/ Done(p)
    \/ CrCheck(p) \/ CrUsers(p) \/ CrEmail(p) \/ CrUname(p)
    \/ GemIdx(p) \/ GemRec(p) \/ GunIdx(p) \/ GunRec(p)

NextRace == \E p \in Callers : RaceStep(p)

\* Every caller runs one Register, all at once.
SpecRace == InitRace /\ [][NextRace]_vars

\* ------------------------------------------------------------------ main

\* What main is started with: the flags, and the environment variables set,
\* unset or empty (the cost as the bytes of "12", "3" and "x").
BootFlags ==
    {Flags(v, e, p) : v \in BOOLEAN, e \in {"development", "production", "test"},
                      p \in {"8080", "9090"}}
BootEnvironments ==
    {[JWT_SECRET |-> s, PORT |-> p, BCRYPT_COST |-> c, LOG_LEVEL |-> l,
      LOG_FORMAT |-> Unset("")] :
        s \in {Unset(""), SetTo(""), SetTo(JWTSecret), SetTo("s3cret")},
        p \in {Unset(""), SetTo("3000")},
        c \in {Unset(<<>>), SetTo(<<49, 50>>), SetTo(<<51>>), SetTo(<<120>>)},
        l \in {Unset(""), SetTo("debug")}}

\* main has been started: no store and no server yet.
InitBoot ==
    /\ boot \in {Boot("main", f, e, NoConfig, FALSE, FALSE) :
                    f \in BootFlags, e \in BootEnvironments}
    /\ now = 1
    /\ spc = [p \in Callers |-> "idle"]
    /\ sreq = [p \in Callers |-> NoSvcRequest]
    /\ sres = [p \in Callers |-> NoSvcResult]
    /\ loc = [p \in Callers |-> NilUser]
    /\ issued = {}
    /\ enrolled = {}
    /\ shared = [p \in Callers |-> {}]
    /\ http = [p \in Callers |-> NoExchange]
    /\ nextID = 0
    /\ users = EmptyMap
    /\ emailIdx = EmptyMap
    /\ usernameIdx = EmptyMap
    /\ mu = [writer |-> FALSE, readers |-> 0]
    /\ pc = [p \in Callers |-> "idle"]
    /\ req = [p \in Callers |-> NoRequest]
    /\ res = [p \in Callers |-> NoResult]
    /\ cur = [p \in Callers |-> NilUser]
    /\ userID = [p \in Callers |-> 0]
    /\ snap = {}
    /\ store0 = EmptyStore
    /\ calls = 0

\* What a step of main leaves alone: everything but main's own state.
BootFrame ==
    UNCHANGED <<users, emailIdx, usernameIdx, mu, pc, req, res, cur, userID, snap, store0,
                calls, now, spc, sreq, sres, loc, issued, enrolled, shared, http,
                nextID>>

\* if *flagVersion { ...; return }
MainVersion ==
    /\ boot.pc = "main"
    /\ boot.flags.version
    /\ boot' = [boot EXCEPT !.pc = "returned"]
    /\ BootFrame

\* cfg, err := config.Load(*flagEnv); if err != nil { log.Fatalf(...) }
MainLoad ==
    /\ boot.pc = "main"
    /\ ~boot.flags.version
    /\ LET l == Load(boot.flags.env, boot.env)
       IN boot' = IF l.err # NoErr
                    THEN [boot EXCEPT !.pc = "fatal"]
                    ELSE [boot EXCEPT !.pc = "loaded", !.cfg = l.cfg]
    /\ BootFrame

\* if *flagPort != "8080" { cfg.Server.Port = *flagPort }
MainPort ==
    /\ boot.pc = "loaded"
    /\ boot' = IF boot.flags.port # "8080"
                 THEN [boot EXCEPT !.pc = "configured", !.cfg.Port = boot.flags.port]
                 ELSE [boot EXCEPT !.pc = "configured"]
    /\ BootFrame

\* userStore := storage.NewMemoryUserStore()
MainStore ==
    /\ boot.pc = "configured"
    /\ boot' = [boot EXCEPT !.pc = "stored", !.store = TRUE]
    /\ BootFrame

\* srv, err := server.New(cfg, userStore), which returns no error
MainServer ==
    /\ boot.pc = "stored"
    /\ boot' = [boot EXCEPT !.pc = "built", !.server = TRUE]
    /\ BootFrame

\* go func() { ... httpServer.ListenAndServe() ... }()
MainServe ==
    /\ boot.pc = "built"
    /\ boot' = [boot EXCEPT !.pc = "serving"]
    /\ BootFrame

NextBoot ==
    MainVersion \/ MainLoad \/ MainPort \/ MainStore \/ MainServer \/ MainServe

\* main from its start to the running server, for every command line and
\* environment.
SpecBoot == InitBoot /\ [][NextBoot]_vars

\* ------------------------------------ store calls one after another

\* What a caller leaves or writes in the fields of the record it passes that
\* the store is to set: an active record with the zero time, or an inactive
\* one with a CreatedAt later than its UpdatedAt and than every time.Now() of
\* the run.
Supplied ==
    {[active |-> TRUE, rest |-> NoRest],
     [active |-> FALSE, rest |-> Rest(NoHash, "", "", MaxTime + 1, 0)]}

\* The records callers pass to CreateUser and UpdateUser, the identifiers
\* they pass to DeleteUser, and the keys they look up.
SeqRequests ==
    {RequestOf(op, i, e, u, f.active, f.rest) :
        op \in {"CreateUser", "UpdateUser"}, i \in SeqIDs, e \in Emails,
        u \in SeqUsernames, f \in Supplied}
        \cup DeleteRequests(SeqIDs)
        \cup ReadRequests

\* A method of the store is called.
CallSeq(p) ==
    /\ spc[p] = "idle"
    /\ calls < MaxRequests
    /\ calls' = calls + 1
    /\ \E r \in SeqRequests : CallStore(p, r)
    /\ SvcGoto(p, "direct")
    /\ UNCHANGED <<now, sreq, loc, issued, enrolled, nextID, shared>>
    /\ CallFrame

\* What a caller writes over a record it holds.
Scrawl == "scrawl"
Overwritten(u) ==
    [u EXCEPT !.Email = Scrawl, !.Username = Scrawl, !.IsActive = FALSE, !.CreatedAt = 0]

\* After the method returned, the caller writes into the record it passed to
\* CreateUser or UpdateUser and into the records the lookup gave it: the
\* write lands in those objects, and in the entries of users that are the
\* same objects.
Scribble(p) ==
    /\ pc[p] = "done"
    /\ spc[p] = "direct"
    /\ res' = [res EXCEPT ![p].val = {Overwritten(u) : u \in res[p].val}]
    /\ req' = IF req[p].op \in {"CreateUser", "UpdateUser"}
                THEN [req EXCEPT ![p].email = Scrawl, ![p].username = Scrawl,
                                 ![p].active = FALSE, ![p].rest.CreatedAt = 0]
                ELSE req
    /\ users' = [i \in DOMAIN users |->
                    IF i \in shared[p] THEN Overwritten(users[i]) ELSE users[i]]
    /\ UNCHANGED <<emailIdx, usernameIdx, mu, pc, cur, userID, snap, store0, calls>>
    /\ UNCHANGED svcVars

NextSeq ==
    \/ Tick \/ CallSeq(Client) \/ StoreCall(Client) \/ DirectDone(Client)
    \/ Scribble(Client)

\* Calls on a new store, one after another, while time passes and the caller
\* writes into the records it holds.
SpecSeq == Init /\ [][NextSeq]_vars

\* -------------------------------------- concurrent Registers and Logins

\* What the callers ask for: to register one of two accounts, or to log in
\* to the first with the right or a wrong password.
ConcRequests ==
    {SvcRequest("Register", "a@x.com", "alice", Password1, NoToken, 0),
     SvcRequest("Register", "b@x.com", "bob", Password1, NoToken, 0),
     SvcRequest("Login", "a@x.com", "", Password1, NoToken, 0),
     SvcRequest("Login", "a@x.com", "", Password2, NoToken, 0)}

\* Every caller has called Register or Login and is about to make its first
\* store call, GetUserByEmail; the store is one that earlier calls left.
InitConc ==
    /\ now = 1
    /\ store0 \in Seeds
    /\ users = store0.users
    /\ emailIdx = store0.emailIdx
    /\ usernameIdx = store0.usernameIdx
    /\ mu = [writer |-> FALSE, readers |-> 0]
    /\ sreq \in [Callers -> ConcRequests]
    /\ spc = [p \in Callers |->
                 IF sreq[p].op = "Register" THEN "reg_email" ELSE "login_email"]
    /\ sres = [p \in Callers |-> NoSvcResult]
    /\ loc = [p \in Callers |-> NilUser]
    /\ req = [p \in Callers |-> Request("GetUserByEmail", 0, sreq[p].email, "", FALSE)]
    /\ pc = [p \in Callers |-> "wait"]
    /\ res = [p \in Callers |-> NoResult]
    /\ cur = [p \in Callers |-> NilUser]
    /\ userID = [p \in Callers |-> 0]
    /\ snap = {}
    /\ calls = NumCallers
    /\ issued = {}
    /\ enrolled = {}
    /\ shared = [p \in Callers |-> {}]
    /\ boot = Booted
    /\ http = [p \in Callers |-> NoExchange]
    /\ nextID = Cardinality(SeqIDs)

\* One step of caller p's Register or Login, or of the store method it called.
ConcStep(p) == RaceStep(p) \/ LoginEmail(p) \/ LoginVerify(p) \/ LoginToken(p)

NextConc == \E p \in Callers : ConcStep(p)

\* Every caller runs one Register or one Login, all at once.
SpecConc == InitConc /\ [][NextConc]_vars

\* ------------------------------------- one call each, of every method

\* The token of the ValidateToken calls: one the service signed for record 1
\* at the first instant.
LiveToken ==
    Token("HS256", JWTSecret, 1, "a@x.com", "alice", NumericDate(1 + TokenDuration),
          NumericDate(1), NumericDate(1))

\* What a caller has called, where that method stands and the store method
\* it is about to run: a method of the service at its first store call, or a
\* method of the store.
LiveCall(svc, at, store) == [sreq |-> svc, spc |-> at, req |-> store]
LiveCalls ==
    <<LiveCall(SvcRequest("Register", "a@x.com", "alice", Password1, NoToken, 0),
               "reg_email", Request("GetUserByEmail", 0, "a@x.com", "", FALSE)),
      LiveCall(SvcRequest("Login", "a@x.com", "", Password1, NoToken, 0),
               "login_email", Request("GetUserByEmail", 0, "a@x.com", "", FALSE)),
      LiveCall(SvcRequest("ValidateToken", "", "", <<>>, LiveToken, 0),
               "val_get", Request("GetUserByID", 1, "", "", FALSE)),
      LiveCall(SvcRequest("GetUserProfile", "", "", <<>>, NoToken, 1),
               "prof_get", Request("GetUserByID", 1, "", "", FALSE)),
      LiveCall(NoSvcRequest, "idle", Request("CreateUser", 1, "a@x.com", "alice", FALSE)),
      LiveCall(NoSvcRequest, "idle", Request("UpdateUser", 1, "c@x.com", "bob", TRUE)),
      LiveCall(NoSvcRequest, "idle", Request("DeleteUser", 1, "", "", FALSE)),
      LiveCall(NoSvcRequest, "idle", Request("GetUserByEmail", 0, "c@x.com", "", FALSE)),
      LiveCall(NoSvcRequest, "idle", Request("ListUsers", 0, "", "", FALSE))>>

\* Which call each caller makes. The callers are alike, so that of two
\* assignments that differ only in who makes which call one is enough.
LiveScenarios ==
    {f \in [Callers -> DOMAIN LiveCalls] : \A p, q \in Callers : p <= q => f[p] <= f[q]}

\* Every caller has made its call and waits for the lock of its store method;
\* the store is one that earlier calls left.
InitLive ==
    /\ now = 1
    /\ store0 \in Seeds
    /\ users = store0.users
    /\ emailIdx = store0.emailIdx
    /\ usernameIdx = store0.usernameIdx
    /\ mu = [writer |-> FALSE, readers |-> 0]
    /\ \E f \in LiveScenarios :
           /\ sreq = [p \in Callers |-> LiveCalls[f[p]].sreq]
           /\ spc = [p \in Callers |-> LiveCalls[f[p]].spc]
           /\ req = [p \in Callers |-> LiveCalls[f[p]].req]
    /\ sres = [p \in Callers |-> NoSvcResult]
    /\ loc = [p \in Callers |-> NilUser]
    /\ pc = [p \in Callers |-> "wait"]
    /\ res = [p \in Callers |-> NoResult]
    /\ cur = [p \in Callers |-> NilUser]
    /\ userID = [p \in Callers |-> 0]
    /\ snap = {}
    /\ calls = NumCallers
    /\ issued = {LiveToken}
    /\ enrolled = {}
    /\ shared = [p \in Callers |-> {}]
    /\ boot = Booted
    /\ http = [p \in Callers |-> NoExchange]
    /\ nextID = Cardinality(SeqIDs)

\* One step of caller p: of the store method it runs, or of the method of
\* the service that called it.
LiveStep(p) ==
    \/ LockWaiting(p) \/ RLockWaiting(p) \/ Step(p) \/ Done(p)
    \/ RegEmail(p) \/ RegUname(p) \/ RegHash(p) \/ RegCreate(p) \/ RegToken(p)
    \/ LoginEmail(p) \/ LoginVerify(p) \/ LoginToken(p)
    \/ ValUser(p) \/ ProfUser(p)

NextLive == \E p \in Callers : LiveStep(p)

\* Every caller runs one call, all at once; a caller that can take a step
\* is not kept from it for ever (the Go scheduler runs every goroutine that
\* is ready, and a goroutine blocked in Lock or RLock is woken when the lock
\* is free).
SpecLive == InitLive /\ [][NextLive]_vars /\ \A p \in Callers : WF_vars(LiveStep(p))

\* ------------------------------------------------------- the HTTP server

\* Handler.Register and Handler.Profile: the status they answer with for what
\* the method of the service returned.
HandlerRegister(err) ==
    IF err = NoErr THEN 201
    ELSE IF err = AuthErrUserExists THEN 409
    ELSE IF err = ErrInvalidCredentials THEN 400
    ELSE 500
HandlerProfile(err) ==
    IF err = NoErr THEN 200
    ELSE IF err = AuthErrUserNotFound THEN 404
    ELSE 500

\* The token strings that clients send: the tokens the service has signed,
\* each of them signed with another secret as well, and a string that is no
\* token.
Presented ==
    issued \cup {[t EXCEPT !.key = OtherSecret] : t \in issued}
           \cup {Malformed}

\* The Authorization headers that clients send: none, the scheme alone, a
\* token string without a scheme, a token the service signed under another
\* scheme or after two spaces, and "Bearer" and one space before each of the
\* token strings.
Headers ==
    {<<>>, <<Word("Bearer")>>, <<TokenString(Malformed)>>}
        \cup {<<Word("Basic"), Space, TokenString(t)>> : t \in issued}
        \cup {<<Word("Bearer"), Space, Space, TokenString(t)>> : t \in issued}
        \cup {<<Word("Bearer"), Space, TokenString(t)>> : t \in Presented}

\* What a step of gin's chain leaves alone: everything but the request.
HttpFrame ==
    UNCHANGED <<users, emailIdx, usernameIdx, mu, pc, req, res, cur, userID, snap, store0,
                calls, now, spc, sreq, sres, loc, issued, enrolled, shared, boot, nextID>>

\* c.JSON(status, ...) (or c.HTML, c.Redirect): the response is written.
Answered(x, status) == [x EXCEPT !.status = status, !.at = "done"]

\* c.JSON(status, ...); c.Abort(); return
Aborted(x, status) == [x EXCEPT !.status = status, !.at = "done", !.aborted = TRUE]

\* A client sends a request and gin starts the chain of its route: the
\* middleware first on a protected route, the route's handler on the others.
\* The requests carry an Authorization header where a client has reason to
\* send one: on the protected routes and on the logout route.
ServeHTTP(p) ==
    /\ http[p].at \in {"idle", "done"}
    /\ spc[p] = "idle"
    /\ \E route \in Routes, h \in Headers, binds \in BOOLEAN :
           /\ route \notin Protected \cup {LogoutRoute} => h = <<>>
           /\ route \notin {RegisterRoute, LoginRoute} => binds
           /\ http' = [http EXCEPT ![p] =
                          Exchange(IF route \in Protected THEN "middleware" ELSE "handler",
                                   route, h, binds, 0, FALSE, FALSE, NoKeys, {})]
    /\ HttpFrame

\* Middleware that goes on to the next handler after it answered 401.
MiddlewareWithoutAbort(p) ==
    /\ http[p].at = "middleware"
    /\ http' = [http EXCEPT ![p] =
                   IF \/ http[p].header = <<>>
                      \/ Len(Split(http[p].header)) # 2
                      \/ Split(http[p].header)[1] # <<Word("Bearer")>>
                     THEN [http[p] EXCEPT !.status = 401, !.at = "handler"]
                     ELSE [http[p] EXCEPT !.at = "validate"]]
    /\ HttpFrame

\* Middleware, up to its call of ValidateToken: authHeader == "" and
\* len(tokenParts) != 2 || tokenParts[0] != "Bearer" answer 401 and abort.
Middleware(p) ==
    /\ http[p].at = "middleware"
    /\ http' = [http EXCEPT ![p] =
                   IF \/ http[p].header = <<>>
                      \/ Len(Split(http[p].header)) # 2
                      \/ Split(http[p].header)[1] # <<Word("Bearer")>>
                     THEN Aborted(http[p], 401)
                     ELSE [http[p] EXCEPT !.at = "validate"]]
    /\ HttpFrame

\* userInfo, err := h.service.ValidateToken(tokenParts[1])
MiddlewareValidate(p) ==
    /\ http[p].at = "validate"
    /\ ValidateCalled(p, AsToken(Split(http[p].header)[2]))

\* if err != nil { c.JSON(401, ...); c.Abort(); return }; c.Set("user_id",
\* userInfo.ID); ...; c.Next()
MiddlewareNext(p) ==
    /\ http[p].at = "validate"
    /\ spc[p] = "sret"
    /\ http' = [http EXCEPT ![p] =
                   IF sres[p].err # NoErr
                     THEN Aborted(http[p], 401)
                     ELSE [http[p] EXCEPT
                              !.at = "handler",
                              !.keys = [user_id |-> sres[p].user.ID,
                                        user_info |-> {sres[p].user}],
                              !.accepted = {sreq[p].token}]]
    /\ HttpFrame

\* Handler.Register and Handler.Login up to the call of the service:
\* c.ShouldBindJSON(&req) fails with 400.
HandleForm(p) ==
    /\ http[p].at = "handler"
    /\ http[p].route \in {RegisterRoute, LoginRoute}
    /\ http' = [http EXCEPT ![p] =
                   IF ~http[p].binds
                     THEN Answered([http[p] EXCEPT !.ran = TRUE], 400)
                     ELSE [http[p] EXCEPT !.ran = TRUE, !.at = "call"]]
    /\ HttpFrame

\* response, err := h.service.Register(&req)
HandleRegister(p) ==
    /\ http[p].at = "call"
    /\ http[p].route = RegisterRoute
    /\ CallRegister(p)

\* response, err := h.service.Login(&req)
HandleLogin(p) ==
    /\ http[p].at = "call"
    /\ http[p].route = LoginRoute
    /\ CallLogin(p)

\* Handler.Logout that ends the session of the bearer of its request: the
\* user its token names is stored as inactive.
HandleLogoutRevoking(p) ==
    /\ http[p].at = "handler"
    /\ http[p].route = LogoutRoute
    /\ http' = [http EXCEPT ![p] = Answered([http[p] EXCEPT !.ran = TRUE], 200)]
    /\ users' = [id \in DOMAIN users |->
                    IF /\ Len(Split(http[p].header)) = 2
                       /\ AsToken(Split(http[p].header)[2]).UserID = id
                      THEN [users[id] EXCEPT !.IsActive = FALSE]
                      ELSE users[id]]
    /\ UNCHANGED <<emailIdx, usernameIdx, mu, pc, req, res, cur, userID, snap, store0,
                   calls, now, spc, sreq, sres, loc, issued, enrolled, shared, boot, nextID>>

\* Handler.Logout: c.JSON(http.StatusOK, ...)
HandleLogout(p) ==
    /\ http[p].at = "handler"
    /\ http[p].route = LogoutRoute
    /\ http' = [http EXCEPT ![p] = Answered([http[p] EXCEPT !.ran = TRUE], 200)]
    /\ HttpFrame

\* Handler.Profile up to the call of the service: userID :=
\* c.GetString("user_id"); if userID == "" { c.JSON(401, ...); return }
HandleProfile(p) ==
    /\ http[p].at = "handler"
    /\ http[p].route = ProfileRoute
    /\ http' = [http EXCEPT ![p] =
                   IF http[p].keys.user_id = 0
                     THEN Answered([http[p] EXCEPT !.ran = TRUE], 401)
                     ELSE [http[p] EXCEPT !.ran = TRUE, !.at = "call"]]
    /\ HttpFrame

\* profile, err := h.service.GetUserProfile(userID)
HandleProfileCall(p) ==
    /\ http[p].at = "call"
    /\ http[p].route = ProfileRoute
    /\ ProfileCalled(p, http[p].keys.user_id)

\* handleDashboard: userInfo, exists := c.Get("user_info"); if !exists {
\* c.Redirect(302, "/login"); return }; c.HTML(200, ...)
HandleDashboard(p) ==
    /\ http[p].at = "handler"
    /\ http[p].route = DashboardRoute
    /\ http' = [http EXCEPT ![p] =
                   Answered([http[p] EXCEPT !.ran = TRUE],
                            IF http[p].keys.user_info = {} THEN 302 ELSE 200)]
    /\ HttpFrame

\* The method of the service has returned to the handler, which answers.
HandleAnswer(p) ==
    /\ http[p].at = "call"
    /\ spc[p] = "sret"
    /\ http' = [http EXCEPT ![p] =
                   Answered(http[p],
                            CASE http[p].route = RegisterRoute ->
                                     HandlerRegister(sres[p].err)
                              [] http[p].route = LoginRoute ->
                                     HandlerLogin(sres[p].err).status
                              [] OTHER -> HandlerProfile(sres[p].err))]
    /\ HttpFrame

\* The middleware or the handler has taken what the service returned.
HandleFinish(p) ==
    /\ http[p].at \notin {"validate", "call"}
    /\ SvcFinish(p)

\* One step of the request of client p: of gin's chain, of the method of the
\* service that the chain called, or of the store method that one called.
HttpStep(p) ==
    \/ ServeHTTP(p)
    \/ Middleware(p) \/ MiddlewareValidate(p) \/ MiddlewareNext(p)
    \/ HandleForm(p) \/ HandleRegister(p) \/ HandleLogin(p) \/ HandleLogout(p)
    \/ HandleProfile(p) \/ HandleProfileCall(p) \/ HandleDashboard(p)
    \/ HandleAnswer(p) \/ HandleFinish(p)
    \/ RegEmail(p) \/ RegUname(p) \/ RegHash(p) \/ RegCreate(p) \/ RegToken(p)
    \/ LoginEmail(p) \/ LoginVerify(p) \/ LoginToken(p)
    \/ ValExpiry(p) \/ ValUser(p) \/ ProfUser(p)
    \/ StoreCall(p)

NextHTTP == Tick \/ HttpStep(Client)

\* A client sends requests to the routes of a server with a new store, one
\* after another, while time passes.
SpecHTTP == Init /\ [][NextHTTP]_vars

\* Every client has sent a request to the register route, and Handler.Register
\* has bound its body and called Register.
InitRaceHTTP ==
    /\ RaceStart
    /\ http = [p \in Callers |->
                  Exchange("call", RegisterRoute, <<>>, TRUE, 0, FALSE, TRUE, NoKeys, {})]

NextRaceHTTP == \E p \in Callers : RaceStep(p) \/ HandleAnswer(p)

\* Every client sends one request to the register route, all at once.
SpecRaceHTTP == InitRaceHTTP /\ [][NextRaceHTTP]_vars

\* ===================================================================
\* Properties of the store under arbitrary call sequences (Spec)
\* ===================================================================

\* No write method is between its Lock and its Unlock: the store is as the
\* calls made so far left it.
Quiescent == \A p \in Callers : ~InWriteCS(p)

\* Caller p has finished the body of method op and holds its return value.
Returning(p, op) == pc[p] = "ret" /\ req[p].op = op

\* The store as it was when the writer that is running took the lock.
Before == CHOOSE s \in snap : TRUE

\* Statement by statement, every store method leaves the store and returns
\* the value that Effect gives for the store it found.
EffectAgrees ==
    \A p \in Callers :
        pc[p] = "ret" =>
            IF req[p].op \in WriteOps
              THEN Effect(Before, req[p]) = [store |-> Store, res |-> res[p]]
              ELSE Effect(Store, req[p]) = [store |-> Store, res |-> res[p]]

\* C1 (uniqueness): between calls, no two stored records have the same Email
\* and no two stored records have the same Username.
C1_UniqueKeys ==
    Quiescent =>
        \A i, j \in DOMAIN users :
            i # j => /\ users[i].Email # users[j].Email
                     /\ users[i].Username # users[j].Username

\* C2 (index consistency): between calls, emailIdx holds e -> id exactly when
\* users[id] exists with Email e, and usernameIdx holds u -> id exactly when
\* users[id] exists with Username u.
C2_IndexConsistent ==
    Quiescent =>
        /\ \A e \in DOMAIN emailIdx :
               Has(users, emailIdx[e]) /\ users[emailIdx[e]].Email = e
        /\ \A u \in DOMAIN usernameIdx :
               Has(users, usernameIdx[u]) /\ users[usernameIdx[u]].Username = u
        /\ \A i \in DOMAIN users :
               /\ Has(emailIdx, users[i].Email)
               /\ emailIdx[users[i].Email] = i
               /\ Has(usernameIdx, users[i].Username)
               /\ usernameIdx[users[i].Username] = i

\* C3 (UpdateUser is all-or-nothing): when UpdateUser returns an error, the
\* users map and both indexes are as they were when the call began.
C3_UpdateAllOrNothing ==
    \A p \in Callers :
        (Returning(p, "UpdateUser") /\ res[p].err # NoErr) => Store = Before

\* C4 (lookups are total): GetUserByEmail(e) and GetUserByUsername(u) return
\* either a copy of a stored record whose Email is e (Username is u) or
\* ErrUserNotFound; they never dereference a missing record.
C4_LookupsTotal ==
    \A p \in Callers :
        /\ Returning(p, "GetUserByEmail") =>
               \/ res[p] = Result(ErrUserNotFound, {})
               \/ /\ res[p].err = NoErr
                  /\ \E i \in DOMAIN users :
                         res[p].val = {users[i]} /\ users[i].Email = req[p].email
        /\ Returning(p, "GetUserByUsername") =>
               \/ res[p] = Result(ErrUserNotFound, {})
               \/ /\ res[p].err = NoErr
                  /\ \E i \in DOMAIN users :
                         res[p].val = {users[i]} /\ users[i].Username = req[p].username

\* The identifier, the email or the username of request r is present in store s:
\* as a key of the users map, in a stored record, or as a key of an index.
PresentIn(s, r) ==
    \/ Has(s.users, r.id)
    \/ \E i \in DOMAIN s.users :
           s.users[i].Email = r.email \/ s.users[i].Username = r.username
    \/ Has(s.emailIdx, r.email)
    \/ Has(s.usernameIdx, r.username)

\* C5 (CreateUser rejects what is present): a CreateUser whose ID, Email or
\* Username is already present in the store fails with ErrUserExists and
\* leaves the users map and both indexes unchanged.
C5_CreateRejectsPresent ==
    \A p \in Callers :
        (Returning(p, "CreateUser") /\ PresentIn(Before, req[p])) =>
            res[p].err = ErrUserExists /\ Store = Before

\* C10 (DeleteUser): with id absent it fails with ErrUserNotFound and changes
\* nothing; otherwise, once it has run, no entry of users, emailIdx or
\* usernameIdx refers to id.
C10_DeleteRemovesAll ==
    \A p \in Callers :
        Returning(p, "DeleteUser") =>
            IF Has(Before.users, req[p].id)
              THEN /\ res[p].err = NoErr
                   /\ ~Has(users, req[p].id)
                   /\ \A e \in DOMAIN emailIdx : emailIdx[e] # req[p].id
                   /\ \A u \in DOMAIN usernameIdx : usernameIdx[u] # req[p].id
              ELSE res[p].err = ErrUserNotFound /\ Store = Before

\* Map m has in n the entries it had, apart from those that map to id in m
\* or in n.
SameButFor(m, n, id) ==
    \A k \in DOMAIN m \cup DOMAIN n :
        \/ Has(m, k) /\ m[k] = id
        \/ Has(n, k) /\ n[k] = id
        \/ Has(m, k) /\ Has(n, k) /\ m[k] = n[k]

\* C35 (frame of a write): a CreateUser, UpdateUser or DeleteUser for the
\* identifier i, whether it succeeds or fails, leaves every record with
\* another identifier and every index entry that maps to another identifier
\* as they were; a successful UpdateUser that changes neither the email nor
\* the username leaves both indexes as they were.
C35_WriteFrame ==
    \A p \in Callers :
        (pc[p] = "ret" /\ req[p].op \in WriteOps) =>
            /\ \A j \in (DOMAIN Before.users \cup DOMAIN users) \ {req[p].id} :
                   /\ Has(Before.users, j) /\ Has(users, j)
                   /\ users[j] = Before.users[j]
            /\ SameButFor(Before.emailIdx, emailIdx, req[p].id)
            /\ SameButFor(Before.usernameIdx, usernameIdx, req[p].id)
            /\ (/\ req[p].op = "UpdateUser"
                /\ res[p].err = NoErr
                /\ req[p].email = Before.users[req[p].id].Email
                /\ req[p].username = Before.users[req[p].id].Username)
                   => emailIdx = Before.emailIdx /\ usernameIdx = Before.usernameIdx

\* ===================================================================
\* Properties of concurrent calls (SpecOnce), and of the lock (Spec)
\* ===================================================================

\* Every caller's call has returned.
AllDone == \A p \in Callers : pc[p] = "done"

\* All callers call CreateUser with email e, with identifiers and usernames
\* that differ from each other, and nothing of it is in the starting store.
SameEmailRace(e) ==
    /\ \A p \in Callers :
           /\ req[p].op = "CreateUser"
           /\ req[p].email = e
           /\ ~PresentIn(store0, req[p])
    /\ \A p, q \in Callers :
           p # q => req[p].id # req[q].id /\ req[p].username # req[q].username

\* The callers whose call returned nil.
Winners == {p \in Callers : res[p].err = NoErr}

\* C6 (same-email race): of N >= 2 concurrent CreateUser calls with one email
\* (distinct identifiers and usernames, none in the store), under every
\* interleaving at most one has succeeded at any time, and once all have
\* returned exactly one returned nil, the others ErrUserExists, and exactly
\* one record has that email.
C6_OneWinner ==
    \A e \in Emails :
        SameEmailRace(e) =>
            /\ Cardinality(Winners) <= 1
            /\ Cardinality({i \in DOMAIN users : users[i].Email = e}) <= 1
            /\ AllDone =>
                   /\ Cardinality(Winners) = 1
                   /\ \A p \in Callers \ Winners : res[p].err = ErrUserExists
                   /\ Cardinality({i \in DOMAIN users : users[i].Email = e}) = 1

\* C6 happens: a same-email race has run to its end, one caller won and
\* another got ErrUserExists.
C6_Witness ==
    \E e \in Emails :
        /\ SameEmailRace(e)
        /\ AllDone
        /\ \E p, q \in Callers : res[p].err = NoErr /\ res[q].err = ErrUserExists

\* All callers call CreateUser with identifiers, emails and usernames that
\* differ from each other, none of them in the starting store.
DistinctCreates ==
    /\ \A p \in Callers : req[p].op = "CreateUser" /\ ~PresentIn(store0, req[p])
    /\ \A p, q \in Callers :
           p # q => /\ req[p].id # req[q].id
                    /\ req[p].email # req[q].email
                    /\ req[p].username # req[q].username

\* The record of request r is returned by all three lookups on store s.
Retrievable(s, r) ==
    /\ Observe(s, Request("GetUserByID", r.id, "", "", FALSE))
           = Result(NoErr, {NewUser(r)})
    /\ Observe(s, Request("GetUserByEmail", 0, r.email, "", FALSE))
           = Result(NoErr, {NewUser(r)})
    /\ Observe(s, Request("GetUserByUsername", 0, "", r.username, FALSE))
           = Result(NoErr, {NewUser(r)})

\* C7 (distinct creates): N concurrent CreateUser calls with pairwise distinct
\* identifiers, emails and usernames, none in the store, all return nil under
\* every interleaving, and afterwards each record is returned by GetUserByID,
\* GetUserByEmail and GetUserByUsername.
C7_AllSucceed ==
    DistinctCreates =>
        /\ \A p \in Callers :
               pc[p] \in {"ret", "done"} =>
                   res[p].err = NoErr /\ Retrievable(Store, req[p])
        /\ AllDone => Cardinality(DOMAIN users) = Cardinality(DOMAIN store0.users) + NumCallers

\* C7 happens: distinct creates have all returned, on a store that already
\* held a record.
C7_Witness ==
    /\ DistinctCreates
    /\ AllDone
    /\ store0.users # EmptyMap
    /\ \A p \in Callers : Retrievable(Store, req[p])

\* C8 (reader-writer discipline): while a write method is inside its critical
\* section no other method, read or write, is inside its own; and the lock
\* counts exactly the callers inside.
C8_WritersExclude ==
    /\ \A p, q \in Callers : (p # q /\ InWriteCS(p)) => ~InCS(q)
    /\ mu.writer = (\E p \in Callers : InWriteCS(p))
    /\ mu.readers = Cardinality({p \in Callers : InReadCS(p)})

\* C8 happens: two read methods are inside their critical sections at once.
C8_Witness ==
    \E p, q \in Callers : p # q /\ InReadCS(p) /\ InReadCS(q)

\* Caller w runs (or ran) UpdateUser on a stored record.
Updating(w) == req[w].op = "UpdateUser" /\ Has(store0.users, req[w].id)

\* Caller w's UpdateUser has succeeded.
Updated(w) == Updating(w) /\ pc[w] \in {"ret", "done"} /\ res[w].err = NoErr

\* C9 (no partial update is observable): a lookup that runs concurrently with
\* an UpdateUser returns what it returns on the store before the update or,
\* once the update has run, on the store after it; and after a successful
\* change of email from e1 to e2 (username from u1 to u2) the new key resolves
\* to the new record and the old key is not found.
C9_OldOrNew ==
    \A w \in Callers :
        Updating(w) =>
            /\ \A r \in Callers :
                   (req[r].op \in ReadOps /\ pc[r] \in {"ret", "done"}) =>
                       \/ res[r] = Observe(store0, req[r])
                       \/ /\ pc[w] \in {"ret", "done"}
                          /\ res[r] = Observe(Store, req[r])
            /\ (Updated(w) /\ req[w].email # store0.users[req[w].id].Email) =>
                   /\ Observe(Store, Request("GetUserByEmail", 0, req[w].email, "", FALSE))
                          = Result(NoErr, {UpdatedUser(req[w])})
                   /\ Observe(Store, Request("GetUserByEmail", 0,
                                             store0.users[req[w].id].Email, "", FALSE))
                          = Result(ErrUserNotFound, {})
            /\ (Updated(w) /\ req[w].username # store0.users[req[w].id].Username) =>
                   /\ Observe(Store, Request("GetUserByUsername", 0, "", req[w].username, FALSE))
                          = Result(NoErr, {UpdatedUser(req[w])})
                   /\ Observe(Store, Request("GetUserByUsername", 0, "",
                                             store0.users[req[w].id].Username, FALSE))
                          = Result(ErrUserNotFound, {})

\* C9 happens: an UpdateUser changed the email of a record while a
\* GetUserByEmail for the new email was running, and the lookup got the new
\* record.
C9_Witness ==
    \E w, r \in Callers :
        /\ Updated(w)
        /\ req[w].email # store0.users[req[w].id].Email
        /\ req[r] = Request("GetUserByEmail", 0, req[w].email, "", FALSE)
        /\ pc[r] = "done"
        /\ res[r] = Result(NoErr, {UpdatedUser(req[w])})
        /\ res[r] # Observe(store0, req[r])

\* The records of store s, as ListUsers returns them when nothing writes.
Records(s) == {s.users[i] : i \in DOMAIN s.users}

\* The caller that runs a write method, when there is one.
Writers == {w \in Callers : req[w].op \in WriteOps}

\* What a ListUsers returned is the record set of the store at one instant:
\* the store before the concurrent write method, or the store after it.
ListIsSnapshot(r) ==
    \/ res[r].val = Records(store0)
    \/ \E w \in Writers : pc[w] \in {"ret", "done"} /\ res[r].val = Records(Store)

\* C34 (ListUsers is an atomic snapshot): what a ListUsers that runs
\* concurrently with a CreateUser, UpdateUser or DeleteUser returns is the
\* record set of the store at one instant between its call and its return;
\* no two of the records it returns have the same Email or the same
\* Username.
C34_ListSnapshot ==
    \A r \in Callers :
        (req[r].op = "ListUsers" /\ pc[r] \in {"ret", "done"}) =>
            /\ res[r].err = NoErr
            /\ ListIsSnapshot(r)
            /\ \A u, v \in res[r].val :
                   (u.Email = v.Email \/ u.Username = v.Username) => u = v

\* ===================================================================
\* Properties of the service, one call after another (SpecAuth)
\* ===================================================================

\* Caller p's call of service method op has run and holds its return value.
SvcReturning(p, op) == spc[p] = "sret" /\ sreq[p].op = op

\* The record that the token of caller p's ValidateToken names is in the
\* store and active.
SubjectActive(p) ==
    /\ Has(users, sreq[p].token.UserID)
    /\ users[sreq[p].token.UserID].IsActive

\* C11 (revocation by state): ValidateToken never succeeds for a token whose
\* subject is absent from the store or inactive, and while the token has not
\* expired the call fails with ErrInvalidToken.
C11_RevokedByState ==
    \A p \in Callers :
        (SvcReturning(p, "ValidateToken") /\ ~SubjectActive(p)) =>
            /\ sres[p].err # NoErr
            /\ now < sreq[p].token.ExpiresAt => sres[p] = Fail(ErrInvalidToken)

\* C11 happens: a token signed by the service and not yet expired is rejected
\* with ErrInvalidToken because its user was made inactive.
C11_Witness ==
    \E p \in Callers :
        /\ SvcReturning(p, "ValidateToken")
        /\ Has(users, sreq[p].token.UserID)
        /\ ~users[sreq[p].token.UserID].IsActive
        /\ now < sreq[p].token.ExpiresAt
        /\ sres[p] = Fail(ErrInvalidToken)

\* C12 (expiry is told apart): a ValidateToken called with a token signed by
\* the service whose expiry instant has passed returns ErrTokenExpired.
C12_ExpiredIsTokenExpired ==
    [][\A p \in Callers :
           (/\ spc[p] = "idle"
            /\ sreq'[p].op = "ValidateToken"
            /\ sreq'[p].token.ExpiresAt < now)
               => (spc'[p] = "sret" /\ sres'[p] = Fail(ErrTokenExpired))]_vars

\* C13 (token round trip): a token that Register or Login returned, validated
\* before its expiry while its user is in the store and active, is accepted,
\* and the view returned has the token's user identifier and the email,
\* username and names that the store holds for it now.
C13_TokenRoundTrip ==
    \A p \in Callers :
        (/\ SvcReturning(p, "ValidateToken")
         /\ sreq[p].token \in issued
         /\ SubjectActive(p)
         /\ now < sreq[p].token.ExpiresAt)
            => /\ sres[p].err = NoErr
               /\ sres[p].user.ID = sreq[p].token.UserID
               /\ sres[p].user = userToUserInfo(users[sreq[p].token.UserID])

\* C13 happens: a token is accepted after its user's email was changed, and
\* the view shows the stored email, not the one in the token.
C13_Witness ==
    \E p \in Callers :
        /\ SvcReturning(p, "ValidateToken")
        /\ sres[p].err = NoErr
        /\ sres[p].user.ID = sreq[p].token.UserID
        /\ sres[p].user.Email = users[sreq[p].token.UserID].Email
        /\ sres[p].user.Email # sreq[p].token.Email

\* Email e is somewhere in the store: in a record or as a key of the index.
EmailInStore(e) ==
    Has(emailIdx, e) \/ \E i \in DOMAIN users : users[i].Email = e

\* Email e resolves to a stored record, Account(e).
Resolves(e) == Has(emailIdx, e) /\ Has(users, emailIdx[e])
Account(e) == users[emailIdx[e]]

\* C14 (credential ambiguity): Login with an email that is not in the store,
\* with the email of an active account and a wrong password, and with the
\* email of an inactive account all return the one error ErrInvalidCredentials,
\* which the Login handler answers with 401 and one message.
C14_OneLoginFailure ==
    \A p \in Callers :
        (/\ SvcReturning(p, "Login")
         /\ \/ ~EmailInStore(sreq[p].email)
            \/ /\ Resolves(sreq[p].email)
               /\ \/ ~Account(sreq[p].email).IsActive
                  \/ Account(sreq[p].email).PasswordHash.of # sreq[p].password)
            => /\ sres[p] = Fail(ErrInvalidCredentials)
               /\ HandlerLogin(sres[p].err)
                      = [status |-> 401, message |-> "Invalid email or password"]

\* C14 happens: a Login with the email of an active account and a wrong
\* password has returned ErrInvalidCredentials.
C14_Witness ==
    \E p \in Callers :
        /\ SvcReturning(p, "Login")
        /\ Resolves(sreq[p].email)
        /\ Account(sreq[p].email).IsActive
        /\ Account(sreq[p].email).PasswordHash.of # sreq[p].password
        /\ sres[p] = Fail(ErrInvalidCredentials)

\* C15 (inactive accounts cannot log in): Login with the email of a record
\* that has IsActive = false returns ErrInvalidCredentials and no token,
\* whether or not the password matches the stored hash.
C15_InactiveRejected ==
    \A p \in Callers :
        (/\ SvcReturning(p, "Login")
         /\ Resolves(sreq[p].email)
         /\ ~Account(sreq[p].email).IsActive)
            => /\ sres[p].err = ErrInvalidCredentials
               /\ sres[p].token = NoToken

\* C15 happens: a Login with the right password was rejected because the
\* account is inactive.
C15_Witness ==
    \E p \in Callers :
        /\ SvcReturning(p, "Login")
        /\ Resolves(sreq[p].email)
        /\ ~Account(sreq[p].email).IsActive
        /\ Account(sreq[p].email).PasswordHash.of = sreq[p].password
        /\ sres[p] = Fail(ErrInvalidCredentials)

\* Email e (username u) resolves to a record of store s.
EmailResolvesIn(s, e) == Has(s.emailIdx, e) /\ Has(s.users, s.emailIdx[e])
UsernameResolvesIn(s, u) == Has(s.usernameIdx, u) /\ Has(s.users, s.usernameIdx[u])

Verifies(t) == t.alg \in HMACMethods /\ t.key = JWTSecret

\* C26 (signature check): ValidateToken succeeds only for a token whose
\* signature verifies under the configured secret with an HMAC method. For a
\* token signed with another secret, one whose header names a method that is
\* not HMAC (none included) and a malformed string it returns ErrInvalidToken
\* at once: it makes no lookup in the store for them.
C26_SignatureChecked ==
    \A p \in Callers :
        (sreq[p].op = "ValidateToken" /\ ~Verifies(sreq[p].token)) =>
            /\ spc[p] = "sret"
            /\ sres[p] = Fail(ErrInvalidToken)
            /\ pc[p] = "idle"
            /\ req[p] = NoRequest

\* ValidateToken has refused a token that differs only in the secret it was
\* signed with from one that it would accept now.
C26_Witness ==
    \E p \in Callers :
        /\ SvcReturning(p, "ValidateToken")
        /\ sreq[p].token.alg = "HS256"
        /\ sreq[p].token.key = OtherSecret
        /\ [sreq[p].token EXCEPT !.key = JWTSecret] \in issued
        /\ ParseWithClaims([sreq[p].token EXCEPT !.key = JWTSecret], now) = NoErr
        /\ SubjectActive(p)

\* C28 (ValidateToken answers from the store): a successful ValidateToken
\* returns the email, username and names of the record as it is stored now,
\* also when UpdateUser changed them after the token was issued, and not the
\* email and username claims of the token.
C28_AnswersFromStore ==
    \A p \in Callers :
        (SvcReturning(p, "ValidateToken") /\ sres[p].err = NoErr) =>
            LET u == users[sreq[p].token.UserID]
            IN /\ sres[p].user.Email = u.Email
               /\ sres[p].user.Username = u.Username
               /\ sres[p].user.FirstName = u.FirstName
               /\ sres[p].user.LastName = u.LastName

\* ValidateToken has succeeded for a token whose subject was given another
\* email, and another username, after the token was issued.
C28_Witness ==
    \E p \in Callers :
        /\ SvcReturning(p, "ValidateToken")
        /\ sres[p].err = NoErr
        /\ sres[p].user.Email = SpareEmail
        /\ sreq[p].token.Email # SpareEmail
        /\ sres[p].user.Username # sreq[p].token.Username

\* ===================================================================
\* Properties of concurrent Registers (SpecRace)
\* ===================================================================

\* Every caller's Register has run to its return.
AllReturned == \A p \in Callers : spc[p] = "sret"

\* The Registers that returned a token.
Registered == {p \in Callers : sres[p].err = NoErr /\ sres[p].token # NoToken}

\* Nothing of what the callers register with is in the starting store, in a
\* record or as a key of an index.
RaceOnNewKeys ==
    \A p \in Callers :
        /\ ~Has(store0.emailIdx, sreq[p].email)
        /\ ~Has(store0.usernameIdx, sreq[p].username)
        /\ \A i \in DOMAIN store0.users :
               /\ store0.users[i].Email # sreq[p].email
               /\ store0.users[i].Username # sreq[p].username

\* All callers register the same email with usernames of their own, or the
\* same username with emails of their own.
SameEmailRegisters ==
    \A p, q \in Callers :
        sreq[p].email = sreq[q].email /\ (p # q => sreq[p].username # sreq[q].username)
SameUsernameRegisters ==
    \A p, q \in Callers :
        sreq[p].username = sreq[q].username /\ (p # q => sreq[p].email # sreq[q].email)

\* The records that have the email (the username) of some caller's Register.
RecordsWithEmail == {i \in DOMAIN users : \E p \in Callers : users[i].Email = sreq[p].email}
RecordsWithUsername ==
    {i \in DOMAIN users : \E p \in Callers : users[i].Username = sreq[p].username}

\* C17 (Register race): of N >= 2 concurrent Registers with one email (or one
\* username) that is not in the store, under every interleaving of their
\* pre-checks, hashing and CreateUser, at most one has succeeded at any time
\* and at most one record has the email (username); once all have returned,
\* exactly one returned a token, every other returned a user-already-exists
\* error (the service's from a pre-check, the store's from CreateUser), and
\* exactly one record has the email (username).
C17_OneRegisters ==
    /\ (RaceOnNewKeys /\ SameEmailRegisters) =>
           /\ Cardinality(Registered) <= 1
           /\ Cardinality(RecordsWithEmail) <= 1
           /\ AllReturned =>
                  /\ Cardinality(Registered) = 1
                  /\ \A p \in Callers \ Registered :
                         sres[p] \in {Fail(AuthErrUserExists), Fail(ErrUserExists)}
                  /\ Cardinality(RecordsWithEmail) = 1
    /\ (RaceOnNewKeys /\ SameUsernameRegisters) =>
           /\ Cardinality(Registered) <= 1
           /\ Cardinality(RecordsWithUsername) <= 1
           /\ AllReturned =>
                  /\ Cardinality(Registered) = 1
                  /\ \A p \in Callers \ Registered :
                         sres[p] \in {Fail(AuthErrUserExists), Fail(ErrUserExists)}
                  /\ Cardinality(RecordsWithUsername) = 1

\* C17 happens: of the Registers of one email, one returned a token and
\* another passed both pre-checks and was rejected by CreateUser.
C17_Witness ==
    /\ RaceOnNewKeys
    /\ SameEmailRegisters
    /\ AllReturned
    /\ \E p, q \in Callers :
           /\ p \in Registered
           /\ sres[q] = Fail(ErrUserExists)
           /\ loc[q].PasswordHash # NoHash

\* The methods of the service, and the five errors of the auth package.
ServiceOps == {"Register", "Login", "ValidateToken", "GetUserProfile"}
AuthErrors ==
    {AuthErrUserExists, AuthErrUserNotFound, ErrInvalidCredentials, ErrInvalidToken,
     ErrTokenExpired}

\* C18 (closed error taxonomy): a failing Register, Login, ValidateToken or
\* GetUserProfile returns one of the five errors of the auth package, never an
\* error of bcrypt, of the token library or of the storage package as it is.
C18_ClosedErrors ==
    \A p \in Callers :
        (spc[p] = "sret" /\ sreq[p].op \in ServiceOps) =>
            sres[p].err \in {NoErr} \cup AuthErrors

\* A record without its password hash, and the view the service would return
\* for a record of which it knows everything but the hash.
Scrub(u) == [u EXCEPT !.PasswordHash = NoHash]
ViewFields == {"ID", "Email", "Username", "FirstName", "LastName", "CreatedAt"}
ClaimFields ==
    {"alg", "key", "UserID", "Email", "Username", "ExpiresAt", "IssuedAt", "NotBefore"}

\* What GetUserProfile returns, computed from the store without its hashes.
ProfileOf(s, id) ==
    IF Has(s.users, id)
    THEN SvcResult(NoErr, NoToken, userToUserInfo(Scrub(s.users[id])), 0)
    ELSE Fail(AuthErrUserNotFound)

\* C19 (password opacity): a value the service returns has no field for the
\* password or its hash, a token has no such claim, and what ValidateToken and
\* GetUserProfile return is computed from the store with every hash erased
\* (so two stores that differ only in hashes give the same results).
C19_PasswordOpaque ==
    /\ \A t \in issued : DOMAIN t = ClaimFields
    /\ \A p \in Callers :
        (spc[p] = "sret" /\ sreq[p].op \in ServiceOps) =>
            /\ DOMAIN sres[p].user = ViewFields
            /\ sres[p].token # NoToken => DOMAIN sres[p].token = ClaimFields
            /\ sres[p].err # NoErr => sres[p] = Fail(sres[p].err)
            /\ sreq[p].op = "GetUserProfile" => sres[p] = ProfileOf(Store, sreq[p].id)
            /\ (sreq[p].op = "ValidateToken" /\ sres[p].err = NoErr) =>
                sres[p] = ProfileOf(Store, sreq[p].token.UserID)

\* A profile and a validation have returned the view of a record that holds a hash.
C19_Witness ==
    \E p \in Callers :
        /\ spc[p] = "sret"
        /\ sreq[p].op = "ValidateToken"
        /\ sres[p].err = NoErr
        /\ users[sreq[p].token.UserID].PasswordHash = PasswordHash(BCryptCost, Password1)
        /\ sres[p].user.ID = sreq[p].token.UserID

\* The record e was enrolled with is in the store as Register stored it.
Unchanged(e) == Has(users, e.user.ID) /\ users[e.user.ID] = e.user

\* C20 (password round-trip): a record that Register stored for email E with
\* password P, and that has not changed since, holds the bcrypt hash of P
\* (a hash, which is never the byte string P itself) and P verifies against it;
\* Login(E, P) succeeds, and Login(E, P') with another password fails with
\* ErrInvalidCredentials.
C20_PasswordRoundTrip ==
    \A e \in enrolled :
        /\ e.user.PasswordHash = hashPassword(e.password).hash
        /\ verifyPassword(e.user.PasswordHash, e.password) = NoErr
        /\ \A p \in Callers :
            (SvcReturning(p, "Login") /\ sreq[p].email = e.user.Email /\ Unchanged(e)) =>
                IF sreq[p].password = e.password
                THEN sres[p].err = NoErr /\ sres[p].token \in issued
                ELSE sres[p] = Fail(ErrInvalidCredentials)

\* C21 (Register's view is the stored record's): the user view a successful
\* Register returns equals, field by field and with the created timestamp the
\* store stamped, the view GetUserProfile returns for the same identifier
\* right after it.
C21_RegisterViewAsStored ==
    \A p \in Callers :
        (SvcReturning(p, "Register") /\ sres[p].err = NoErr) =>
            sres[p].user = ProfileOf(Store, sres[p].user.ID).user

\* The step in which Register or Login of caller p makes its token and returns.
Issues(p) == spc[p] \in {"reg_token", "login_token"} /\ spc'[p] = "sret"

\* C31 (token timing): a token issued at instant t has IssuedAt = NotBefore = t
\* and ExpiresAt = t + TokenDuration, and the expiry instant returned with it
\* is its ExpiresAt claim; the parser of ValidateToken accepts it at every
\* instant from t up to, not including, t + TokenDuration, and at no instant
\* after t + TokenDuration.
C31_TokenTiming ==
    [][\A p \in Callers :
          Issues(p) =>
              /\ sres'[p].token.IssuedAt = now
              /\ sres'[p].token.NotBefore = now
              /\ sres'[p].token.ExpiresAt = now + TokenDuration
              /\ sres'[p].expiresAt = sres'[p].token.ExpiresAt
              /\ \A t \in now..(now + TokenDuration - 1) :
                     ParseWithClaims(sres'[p].token, t) = NoErr
              /\ \A t \in (now + TokenDuration + 1)..(MaxTime + TokenDuration + 1) :
                     ParseWithClaims(sres'[p].token, t) # NoErr]_vars

\* An identifier, an email and a username that no call of the model uses
\* (the identifier is above those the callers pass and those generateID
\* makes), and what CreateUser returns on the store as it is for a record
\* with that identifier and the given email and username.
NewID == Cardinality(SeqIDs) + NumCallers + MaxRequests + 1
NewEmail == "z@x.com"
NewUsername == "zed"
CreateNow(e, u) ==
    Effect(Store, Request("CreateUser", NewID, e, u, FALSE)).res.err

\* The stored record u is where every lookup finds it, and its keys are taken.
KeysHeld(u) ==
    /\ Observe(Store, Request("GetUserByID", u.ID, "", "", FALSE)) = Result(NoErr, {u})
    /\ Observe(Store, Request("GetUserByEmail", 0, u.Email, "", FALSE)) = Result(NoErr, {u})
    /\ Observe(Store, Request("GetUserByUsername", 0, "", u.Username, FALSE))
           = Result(NoErr, {u})
    /\ ProfileOf(Store, u.ID) = SvcResult(NoErr, NoToken, userToUserInfo(u), 0)
    /\ CreateNow(u.Email, NewUsername) = ErrUserExists
    /\ CreateNow(NewEmail, u.Username) = ErrUserExists
    /\ \A p \in Callers :
           (/\ SvcReturning(p, "Register")
            /\ sreq[p].email = u.Email \/ sreq[p].username = u.Username)
               => sres[p].err \in {AuthErrUserExists, ErrUserExists}

\* C29 (deactivation frees no key): a record made inactive through UpdateUser
\* stays in the store; GetUserByID, GetUserByEmail, GetUserByUsername and
\* GetUserProfile still return it, and CreateUser and Register with its email
\* or its username still fail with the AlreadyExists error. No step other than
\* a DeleteUser of a record takes it out of the store.
C29_DeactivationKeepsKeys ==
    [][/\ \A i \in DOMAIN users' : ~users'[i].IsActive => KeysHeld(users[i])'
       /\ \A i \in DOMAIN users :
              i \notin DOMAIN users' =>
                  \E p \in Callers :
                      /\ pc[p] = "wait"
                      /\ req[p] = Request("DeleteUser", i, "", "", FALSE)
                      /\ pc'[p] = "done"]_vars

\* ===================================================================
\* Properties of concurrent Registers and Logins (SpecConc)
\* ===================================================================

\* Caller p is hashing a password, verifying one, or signing a token.
Hashing(p) == spc[p] \in {"reg_hash", "login_verify", "reg_token", "login_token"}

\* C22 (no lock across hashing or signing): the write lock is held exactly
\* while some caller is inside a write method of the store and the read lock
\* by exactly the callers inside a read method, and a caller that is hashing,
\* verifying or signing in Register or Login is inside no store method: it
\* holds neither lock, and the store calls of the others go on.
C22_NoLockWhileHashing ==
    /\ mu.writer = (\E q \in Callers : InWriteCS(q))
    /\ mu.readers = Cardinality({q \in Callers : InReadCS(q)})
    /\ \A p \in Callers : Hashing(p) => ~InCS(p) /\ pc[p] = "idle"

\* One caller verifies a password while another is inside CreateUser, and one
\* caller hashes while another is inside a read method.
C22_Witness ==
    \E p, q \in Callers :
        /\ p # q
        /\ \/ spc[p] = "login_verify" /\ InWriteCS(q)
           \/ spc[p] = "reg_token" /\ InReadCS(q)

\* ===================================================================
\* Properties of store calls made one after another (SpecSeq)
\* ===================================================================

\* The step in which the store method `op` that caller p called runs, and
\* succeeds.
Succeeds(p, op) ==
    /\ pc[p] = "wait"
    /\ req[p].op = op
    /\ pc'[p] = "done"
    /\ res'[p].err = NoErr

\* C23 (what CreateUser stores): after a successful CreateUser, whatever
\* IsActive, CreatedAt and UpdatedAt the caller supplied, the stored record is
\* active, its CreatedAt and UpdatedAt are the time of the call (so CreatedAt
\* <= UpdatedAt), its other fields are the caller's, and both indexes map its
\* Email and its Username to its ID.
C23_CreateStamps ==
    [][\A p \in Callers :
          Succeeds(p, "CreateUser") =>
              /\ Has(users', req[p].id)
              /\ users'[req[p].id].IsActive
              /\ users'[req[p].id].CreatedAt = now
              /\ users'[req[p].id].UpdatedAt = now
              /\ users'[req[p].id].CreatedAt <= users'[req[p].id].UpdatedAt
              /\ users'[req[p].id].ID = req[p].id
              /\ users'[req[p].id].Email = req[p].email
              /\ users'[req[p].id].Username = req[p].username
              /\ Has(emailIdx', req[p].email) /\ emailIdx'[req[p].email] = req[p].id
              /\ Has(usernameIdx', req[p].username)
              /\ usernameIdx'[req[p].username] = req[p].id]_vars

\* A CreateUser that was given an inactive record with a CreatedAt of its
\* caller's has succeeded, at an instant later than the first.
C23_Witness ==
    \E p \in Callers :
        /\ pc[p] = "done"
        /\ req[p].op = "CreateUser"
        /\ res[p].err = NoErr
        /\ ~req[p].active
        /\ req[p].rest.CreatedAt = MaxTime + 1
        /\ users[req[p].id].CreatedAt > 1
        /\ users[req[p].id].CreatedAt <= now

\* C24 (CreatedAt is the store's): a successful UpdateUser, whatever CreatedAt
\* its caller supplied, leaves the stored CreatedAt as it was, so that after
\* any sequence of them it is still the value CreateUser stamped.
C24_CreatedAtKept ==
    [][\A p \in Callers :
          Succeeds(p, "UpdateUser") =>
              users'[req[p].id].CreatedAt = users[req[p].id].CreatedAt]_vars

\* The step is the run of CreateUser, UpdateUser or DeleteUser.
WriteStep ==
    \E p \in Callers : pc[p] = "wait" /\ req[p].op \in WriteOps /\ pc'[p] = "done"

CreateOn(s, e, u) == Effect(s, Request("CreateUser", NewID, e, u, FALSE)).res.err

\* C30 (key reuse after rename or delete): after a successful UpdateUser that
\* changes a record's email from e1 to e2 (its username from u1 to u2), a
\* CreateUser with a new ID and e1 (u1) succeeds and one with e2 (u2) fails
\* with ErrUserExists; after a successful DeleteUser of a record with email e1
\* and username u1, a CreateUser with a new ID and e1, u1 or both succeeds.
C30_KeysReusable ==
    [][\A p \in Callers :
          /\ Succeeds(p, "UpdateUser") =>
                LET old == users[req[p].id]
                    new == users'[req[p].id]
                IN /\ old.Email # new.Email =>
                          /\ CreateOn(Store', old.Email, NewUsername) = NoErr
                          /\ CreateOn(Store', new.Email, NewUsername) = ErrUserExists
                   /\ old.Username # new.Username =>
                          /\ CreateOn(Store', NewEmail, old.Username) = NoErr
                          /\ CreateOn(Store', NewEmail, new.Username) = ErrUserExists
                   /\ (old.Email # new.Email /\ old.Username # new.Username) =>
                          CreateOn(Store', old.Email, old.Username) = NoErr
          /\ Succeeds(p, "DeleteUser") =>
                LET old == users[req[p].id]
                IN /\ CreateOn(Store', old.Email, NewUsername) = NoErr
                   /\ CreateOn(Store', NewEmail, old.Username) = NoErr
                   /\ CreateOn(Store', old.Email, old.Username) = NoErr]_vars

\* An UpdateUser has given a record another email and another username; the
\* keys it had can be used again and the email it has now cannot.
C30_Witness ==
    \E p \in Callers :
        /\ pc[p] = "done"
        /\ req[p].op = "UpdateUser"
        /\ res[p].err = NoErr
        /\ \E i \in DOMAIN users :
               /\ Has(store0.users, i)
               /\ store0.users[i].Email # users[i].Email
               /\ store0.users[i].Username # users[i].Username
               /\ CreateNow(store0.users[i].Email, store0.users[i].Username) = NoErr
               /\ CreateNow(users[i].Email, NewUsername) = ErrUserExists

\* ===================================================================
\* Properties of one call each of every method (SpecLive)
\* ===================================================================

\* The call of caller p has returned: the method of the service, or the
\* store method that was called directly.
HasReturned(p) ==
    IF sreq[p].op = "none" THEN pc[p] = "done" ELSE spc[p] = "sret" /\ pc[p] = "idle"

\* A caller that is in no store method holds no lock: the lock is held as
\* many times as callers are inside their methods.
LocksReleased ==
    /\ mu.writer = (\E p \in Callers : InWriteCS(p))
    /\ mu.readers = Cardinality({p \in Callers : InReadCS(p)})
    /\ \A p \in Callers : HasReturned(p) => ~InCS(p)

\* C36 (lock release and progress): a store method has released its lock
\* when it has returned, on the successful return, on every error return and
\* on a panic; every store method and every Register, Login, ValidateToken
\* and GetUserProfile that the callers run at once returns in the end, with
\* the lock free.
C36_ReleaseAndProgress ==
    /\ []LocksReleased
    /\ <>[](/\ \A p \in Callers : HasReturned(p)
             /\ mu = [writer |-> FALSE, readers |-> 0])

\* Every call has returned, an UpdateUser among them with ErrUserExists and a
\* Register that had to wait for it, and the lock is free.
C36_Witness ==
    /\ \A p \in Callers : HasReturned(p)
    /\ mu = [writer |-> FALSE, readers |-> 0]
    /\ \E p \in Callers :
           /\ req[p].op = "UpdateUser"
           /\ res[p].err = ErrUserExists
    /\ \E p \in Callers : sreq[p].op = "Register"

\* ===================================================================
\* Properties of the HTTP server (SpecRaceHTTP, SpecHTTP)
\* ===================================================================

\* The request of client p to `route` has been answered.
AnsweredOn(p, route) == http[p].at = "done" /\ http[p].route = route

\* C32 (409 for a taken key): the register route answers 409 to every
\* registration that failed because the email or the username was taken,
\* whether a pre-check of Register found it or CreateUser refused the record
\* after a concurrent registration had stored the same email or username.
C32_ConflictFor409 ==
    \A p \in Callers :
        (/\ AnsweredOn(p, RegisterRoute)
         /\ sres[p].err \in {AuthErrUserExists, ErrUserExists})
            => http[p].status = 409

\* The header is exactly "Bearer", one space and a string without a space.
BearerHeader(h) ==
    /\ Len(h) = 3
    /\ h[1] = Word("Bearer")
    /\ h[2] = Space
    /\ h[3] # Space

\* C33 (the gate comes first): on a protected route the route's handler has
\* run only if ValidateToken succeeded on the bearer token of the same
\* request, whose header is exactly "Bearer <token>"; a request without an
\* Authorization header, with a header of another form or with a token that
\* ValidateToken refused is answered 401, its chain is aborted and its
\* handler has not run.
C33_GateBeforeHandler ==
    \A p \in Callers :
        http[p].route \in Protected =>
            /\ http[p].ran =>
                   /\ BearerHeader(http[p].header)
                   /\ http[p].accepted = {AsToken(<<http[p].header[3]>>)}
                   /\ ~http[p].aborted
            /\ ~BearerHeader(http[p].header) =>
                   /\ http[p].at \in {"middleware", "done"}
                   /\ http[p].accepted = {}
            /\ (http[p].at = "done" /\ http[p].accepted = {}) =>
                   /\ http[p].status = 401
                   /\ http[p].aborted
                   /\ ~http[p].ran

\* The dashboard has been served to a request whose token ValidateToken
\* accepted.
C33_Witness ==
    \E p \in Callers :
        /\ AnsweredOn(p, DashboardRoute)
        /\ http[p].ran
        /\ http[p].status = 200
        /\ http[p].accepted # {}
        /\ http[p].accepted \subseteq issued

\* What ValidateToken answers to token string t at this instant: the parser
\* takes it, and the user it names is stored and active.
Accepts(t) ==
    /\ ParseWithClaims(t, now) = NoErr
    /\ t.UserID \in DOMAIN users
    /\ users[t.UserID].IsActive

\* The step in which Handler.Logout answers the request of p.
LogoutAnswers(p) ==
    /\ http[p].at = "handler"
    /\ http[p].route = LogoutRoute
    /\ http'[p].at = "done"

\* C37 (logout is stateless): Handler.Logout answers 200 to every request,
\* with or without a token, and leaves the store and the service as they
\* were, so that every token ValidateToken would take before the answer it
\* would take after it; and ValidateToken, whenever it is called on a token
\* the service signed, refuses it only once its expiry has come or its user
\* is no longer stored and active, whatever logouts came before.
C37_LogoutStateless ==
    /\ [][\A p \in Callers :
              LogoutAnswers(p) =>
                  /\ http'[p].status = 200
                  /\ UNCHANGED <<users, emailIdx, usernameIdx, mu, issued, enrolled,
                                 nextID, now, spc, sreq, sres, loc>>
                  /\ \A t \in issued : Accepts(t) => Accepts(t)']_vars
    /\ [](\A p \in Callers :
              (/\ spc[p] = "sret"
               /\ sreq[p].op = "ValidateToken"
               /\ sreq[p].token \in issued
               /\ sres[p].err # NoErr)
                  => \/ ~(now < sreq[p].token.ExpiresAt)
                     \/ sreq[p].token.UserID \notin DOMAIN users
                     \/ ~users[sreq[p].token.UserID].IsActive)

\* Handler.Logout has answered 200 to a request that carried a token the
\* service signed, and ValidateToken would still take that token.
C37_Witness ==
    \E p \in Callers :
        /\ AnsweredOn(p, LogoutRoute)
        /\ http[p].status = 200
        /\ BearerHeader(http[p].header)
        /\ AsToken(<<http[p].header[3]>>) \in issued
        /\ Accepts(AsToken(<<http[p].header[3]>>))

\* A token string that carries the service's signature.
CorrectlySigned(t) == t.alg \in HMACMethods /\ t.key = JWTSecret

\* C38 (the states the service alone can reach): while the store is written
\* only by the CreateUser of Register, every stored user is active; no two
\* records share an email or a username and the two indexes hold exactly the
\* keys of the records; no step removes or changes a record; and a token the
\* service signed is taken by ValidateToken exactly as long as its expiry has
\* not come: every call that returned an error for a correctly signed token
\* returned it for a token whose expiry had come.
C38_ServiceReachable ==
    /\ [](/\ \A i \in DOMAIN users : users[i].IsActive
          /\ \A i, j \in DOMAIN users :
                 (users[i].Email = users[j].Email \/ users[i].Username = users[j].Username)
                     => i = j
          /\ DOMAIN emailIdx = {users[i].Email : i \in DOMAIN users}
          /\ DOMAIN usernameIdx = {users[i].Username : i \in DOMAIN users}
          /\ \A i \in DOMAIN users :
                 emailIdx[users[i].Email] = i /\ usernameIdx[users[i].Username] = i
          /\ \A t \in issued : Accepts(t) <=> now < t.ExpiresAt
          /\ \A p \in Callers :
                 (/\ spc[p] = "sret"
                  /\ sreq[p].op = "ValidateToken"
                  /\ CorrectlySigned(sreq[p].token)
                  /\ sres[p].err # NoErr)
                     => /\ sreq[p].token \in issued
                        /\ sres[p].err \in {ErrInvalidToken, ErrTokenExpired}
                        /\ ~(now < sreq[p].token.ExpiresAt))
    /\ [][\A i \in DOMAIN users : i \in DOMAIN users' /\ users'[i] = users[i]]_vars

\* Two users are registered, the token of one has passed its expiry and that
\* of the other has not, and ValidateToken has just refused the expired one.
C38_Witness ==
    /\ Cardinality(DOMAIN users) = 2
    /\ \E t \in issued : Accepts(t)
    /\ \E p \in Callers :
           /\ spc[p] = "sret"
           /\ sreq[p].op = "ValidateToken"
           /\ sreq[p].token \in issued
           /\ sres[p].err # NoErr

\* ===================================================================
\* Properties of main (SpecBoot)
\* ===================================================================

\* JWT_SECRET is unset, empty or the built-in placeholder.
NoSecretGiven ==
    \/ ~boot.env.JWT_SECRET.set
    \/ boot.env.JWT_SECRET.value = ""
    \/ boot.env.JWT_SECRET.value = JWTSecret

\* C27 (no placeholder secret in production): config.Load("production")
\* returns no configuration whose JWT secret is the built-in placeholder. When
\* JWT_SECRET is unset, empty or the placeholder it returns an error, and main
\* ends there, with no store and no server created.
C27_NoPlaceholderInProduction ==
    /\ \A e \in BootEnvironments :
           LET l == Load("production", e)
           IN /\ l.err = NoErr => l.cfg.JWTSecret # JWTSecret
              /\ l.err # NoErr => l.cfg = NoConfig
    /\ (boot.flags.env = "production" /\ NoSecretGiven /\ ~boot.flags.version) =>
           /\ boot.pc \in {"main", "fatal"}
           /\ ~boot.store
           /\ ~boot.server
           /\ boot.cfg = NoConfig
    /\ (boot.flags.env = "production" /\ boot.pc \notin {"main", "fatal", "returned"}) =>
           boot.cfg.JWTSecret # JWTSecret

\* main was started for production with JWT_SECRET set to the empty string,
\* and has ended in log.Fatalf.
C27_Witness ==
    /\ boot.flags.env = "production"
    /\ boot.env.JWT_SECRET = SetTo("")
    /\ boot.pc = "fatal"

====